---- MODULE Spec2Model ----
(***************************************************************************)
(* Model of cmd/import-releases/main.go: the CSV producer, the worker     *)
(* pool with its run-scoped dedup set, the enrichment orchestrator and    *)
(* the result aggregator.                                                  *)
(*                                                                         *)
(* Strings the code inspects character by character (artist, album) are   *)
(* sequences of one-character strings; characters outside ASCII carry an  *)
(* ASCII name ("a_acute" is U+00E1, "A_acute" is U+00C1, "ndash" U+2013). *)
(***************************************************************************)
EXTENDS Integers, Sequences, FiniteSets, TLC

\* Number of records the CSV reader returns before io.EOF.
MaxRows == 3
\* Largest value of the -workers flag that is explored.
MaxWorkers == 2
\* Largest number of entries of a URL list passed to pickOfficialWebsite.
MaxUrls == 2
\* Largest number of candidates in the answer of a registry search.
MaxCands == 3

Rows == 1..MaxRows
WorkerIds == 1..MaxWorkers

-----------------------------------------------------------------------------
(* norm and releaseKey                                                     *)

IsSpace(c) == c = " "

RECURSIVE TrimLeft(_)
TrimLeft(s) == IF s # <<>> /\ IsSpace(Head(s)) THEN TrimLeft(Tail(s)) ELSE s

RECURSIVE TrimRight(_)
TrimRight(s) ==
    IF s # <<>> /\ IsSpace(s[Len(s)])
    THEN TrimRight(SubSeq(s, 1, Len(s) - 1))
    ELSE s

TrimSpace(s) == TrimRight(TrimLeft(s))

ToLowerCh(c) ==
    CASE c = "A" -> "a"
      [] c = "B" -> "b"
      [] c = "C" -> "c"
      [] c = "E" -> "e"
      [] c = "H" -> "h"
      [] c = "T" -> "t"
      [] c = "X" -> "x"
      [] c = "A_acute" -> "a_acute"
      [] c = "U_uml" -> "u_uml"
      [] OTHER -> c

ToLower(s) == [i \in 1..Len(s) |-> ToLowerCh(s[i])]

\* The strings.NewReplacer table of norm; every pattern is one character.
ReplaceCh(c) ==
    CASE c = "ndash" -> <<"-">>
      [] c = "mdash" -> <<"-">>
      [] c = "&" -> <<" ", "a", "n", "d", " ">>
      [] c = "e_acute" -> <<"e">>
      [] c = "e_grave" -> <<"e">>
      [] c = "a_acute" -> <<"a">>
      [] c = "a_grave" -> <<"a">>
      [] c = "o_acute" -> <<"o">>
      [] c = "o_uml" -> <<"o">>
      [] c = "u_uml" -> <<"u">>
      [] c = "i_acute" -> <<"i">>
      [] c = "i_uml" -> <<"i">>
      [] c = "c_cedilla" -> <<"c">>
      [] OTHER -> <<c>>

RECURSIVE Replace(_)
Replace(s) == IF s = <<>> THEN <<>> ELSE ReplaceCh(Head(s)) \o Replace(Tail(s))

TrimPrefix(s, p) ==
    IF Len(s) >= Len(p) /\ SubSeq(s, 1, Len(p)) = p
    THEN SubSeq(s, Len(p) + 1, Len(s))
    ELSE s

AsciiLowerOrDigit ==
    {"a", "b", "c", "d", "e", "f", "g", "h", "i", "j", "k", "l", "m",
     "n", "o", "p", "q", "r", "s", "t", "u", "v", "w", "x", "y", "z",
     "0", "1", "2", "3", "4", "5", "6", "7", "8", "9"}

KeepRune(c) == c \in AsciiLowerOrDigit \/ c = " "

\* spaceRe.ReplaceAllString(s, " "): every run of spaces becomes one space.
RECURSIVE CollapseSpaces(_)
CollapseSpaces(s) ==
    IF Len(s) < 2 THEN s
    ELSE IF IsSpace(s[1]) /\ IsSpace(s[2]) THEN CollapseSpaces(Tail(s))
    ELSE <<s[1]>> \o CollapseSpaces(Tail(s))

norm(s) ==
    LET lowered == ToLower(TrimSpace(s))
        replaced == Replace(lowered)
        stripped == TrimPrefix(replaced, <<"t", "h", "e", " ">>)
        buf == SelectSeq(stripped, KeepRune)
    IN  TrimSpace(CollapseSpaces(buf))

releaseKeyRaw(date, artist, album) == <<date, artist, album>>

releaseKey(date, artist, album) == <<date, norm(artist), norm(album)>>

-----------------------------------------------------------------------------
(* Input records as csv.Reader.Read returns them                           *)

\* time.Parse("2006-01-02", d): a date is <<year, month, day>>, "" is <<>>.
DaysIn(y, m) ==
    IF m \in {4, 6, 9, 11} THEN 30
    ELSE IF m = 2 THEN (IF y % 4 = 0 /\ (y % 100 # 0 \/ y % 400 = 0) THEN 29 ELSE 28)
    ELSE 31

ParsesAsDate(d) ==
    /\ Len(d) = 3
    /\ d[1] \in 0..9999
    /\ d[2] \in 1..12
    /\ d[3] \in 1..DaysIn(d[1], d[2])

GoodDate == <<2024, 1, 15>>
BadDate == <<2024, 13, 45>>

ArtistA1 == <<"A", "b">>
ArtistA2 == <<" ", "a_acute", "B">>
ArtistB == <<"c">>
ArtistC == <<"T", "h", "e", " ", "c", "&", "X">>
AlbumX == <<"X">>
AlbumX2 == <<"x", " ">>

\* What one call of r.Read() can return besides io.EOF: err is "none",
\* or "fieldcount" (csv.ErrFieldCount, as FieldsPerRecord = 4).
ReadPool ==
    { [err |-> "none", rec |-> <<GoodDate, ArtistA1, AlbumX, <<>>>>],
      [err |-> "none", rec |-> <<GoodDate, ArtistA2, AlbumX2, <<>>>>],
      [err |-> "none", rec |-> <<GoodDate, ArtistB, AlbumX, <<>>>>],
      [err |-> "none", rec |-> <<GoodDate, ArtistC, AlbumX, <<"X">>>>],
      [err |-> "none", rec |-> <<GoodDate, <<" ">>, AlbumX, <<>>>>],
      [err |-> "none", rec |-> <<BadDate, ArtistB, AlbumX, <<>>>>],
      [err |-> "fieldcount", rec |-> <<GoodDate, ArtistB, AlbumX>>] }

NoRow == [rowNum |-> 0, dateISO |-> <<>>, artist |-> <<>>, album |-> <<>>, label |-> <<>>]

Statuses == {"success", "dupe_skip", "exists_skip", "error"}

\* The catalog row the existence check compares: LOWER(artist), LOWER(title), date.
CatalogIdent(artist, album, date) == <<ToLower(artist), ToLower(album), date>>

-----------------------------------------------------------------------------
(* enrichRelease                                                           *)

\* What one provider lookup can come back with.  "neterr": httpClient.Do
\* returned an error for the first request of the lookup (the response is
\* nil); "neterr2": the same for its second request; "non2xx": a status
\* other than 200; "malformed": a body that does not decode; "empty": a
\* well-formed answer without a hit; "hit": a well-formed answer with data.
Failures == {"neterr", "neterr2", "non2xx", "malformed"}
Outcomes == Failures \cup {"empty", "hit"}
\* "hit_no_album": the artist is found, the album is not; "hit_bare": the
\* artist is found without genres, the album is not.
SpotifyOutcomes == Outcomes \cup {"hit_no_album", "hit_bare"}

\* ceil(e^k) for k = 1..21: floor(ln(1+f)) >= k iff 1+f >= ExpCeil[k].
ExpCeil ==
    <<3, 8, 21, 55, 149, 404, 1097, 2981, 8104, 22027, 59875, 162755, 442414,
      1202605, 3269018, 8886111, 24154953, 65659970, 178482301, 485165196,
      1318815735>>

\* math.Log(float64(followers)) in place of math.Log1p.
FloorLog(f) == Cardinality({k \in 1..Len(ExpCeil) : f >= ExpCeil[k]})

FloorLog1p(f) == Cardinality({k \in 1..Len(ExpCeil) : 1 + f >= ExpCeil[k]})

computeScore(followers, popularity) ==
    LET l == FloorLog1p(followers)
    IN  IF l > popularity THEN (IF l > 100 THEN 100 ELSE l) ELSE popularity

\* Follower counts beyond the integers of the checker, as decimal numerals:
\* floor(e^33) - 1, floor(e^36) - 1 and the largest int64.
WideFollowers == {"214643579785915", "4311231547115194", "9223372036854775807"}

\* int(math.Floor(math.Log1p(float64(followers)))) for the wide counts.
\* ln(214643579785916) = 33 - 3.0e-16 and ln(4311231547115195) = 36 - 5.3e-17
\* are nearer to 33.0 and 36.0 than to the float64 below them (the spacing
\* there is 7.1e-15), so Log1p returns 33.0 and 36.0.
Float64FloorLog1p ==
    [w \in WideFollowers |->
        CASE w = "214643579785915" -> 33
          [] w = "4311231547115194" -> 36
          [] w = "9223372036854775807" -> 43]

computeScoreWide(followers, popularity) ==
    LET l == Float64FloorLog1p[followers]
    IN  IF l > popularity THEN (IF l > 100 THEN 100 ELSE l) ELSE popularity

\* strings.ToLower(strings.TrimSpace(s)) over the genre names of the model.
LowerStr(s) ==
    CASE s = "Death Metal" -> "death metal"
      [] s = "DEATH METAL" -> "death metal"
      [] s = " death metal" -> "death metal"
      [] s = "Doom" -> "doom"
      [] s = " Doom " -> "doom"
      [] s = "Black Metal" -> "black metal"
      [] s = " " -> ""
      [] OTHER -> s

RECURSIVE normalizeList(_)
normalizeList(in) ==
    IF in = <<>> THEN <<>>
    ELSE LET init == normalizeList(SubSeq(in, 1, Len(in) - 1))
             s == LowerStr(in[Len(in)])
         IN  IF s = "" \/ \E i \in 1..Len(init) : init[i] = s
             THEN init
             ELSE Append(init, s)

\* The separators parseMAGenres splits a genre field on; a field is the
\* sequence of its genre names and separators.
MASeparators == {"/", ",", ";"}

NotMASeparator(a) == a \notin MASeparators

\* Lowercase, split on the separators, trim, drop empty and repeated parts.
parseMAGenres(s) == normalizeList(SelectSeq(s, NotMASeparator))

RECURSIVE AppendUnseen(_, _)
AppendUnseen(out, list) ==
    IF list = <<>> THEN out
    ELSE IF \E i \in 1..Len(out) : out[i] = Head(list)
         THEN AppendUnseen(out, Tail(list))
         ELSE AppendUnseen(Append(out, Head(list)), Tail(list))

unionPreserveConcat(a, b, c) == a \o b \o c

unionPreserve(a, b, c) == AppendUnseen(AppendUnseen(AppendUnseen(<<>>, a), b), c)

\* The steps in the order a..i of the design text.
enrichOrderAsListed ==
    <<"spotify", "spotify_label", "youtube", "ma_genres", "ma_country",
      "mb_country", "discogs_country", "discogs_styles", "label_info",
      "genre_merge", "score">>

\* The calls of enrichRelease in the order of its body.
enrichOrder ==
    <<"spotify", "spotify_label", "youtube", "ma_genres", "ma_country",
      "discogs_styles", "mb_country", "discogs_country", "genre_merge",
      "label_info", "score">>

StepIndex(order, s) == CHOOSE i \in 1..Len(order) : order[i] = s

NextStep(s) ==
    LET i == StepIndex(enrichOrder, s)
    IN  IF i = Len(enrichOrder) THEN "returned" ELSE enrichOrder[i + 1]

\* out := &enrichedRelease{...} at the head of enrichRelease.
NewEnriched(label) ==
    [pc |-> enrichOrder[1], label |-> label, country |-> "",
     followers |-> 0, popularity |-> 0, aid |-> "", albumID |-> "",
     albumURL |-> "", previewURL |-> "", cover |-> "", youtube |-> "",
     spGenres |-> <<>>, ma |-> <<>>, dc |-> <<>>, genres |-> <<>>,
     labelDiscogsURL |-> "", labelURL |-> "", score |-> 0,
     sources |-> {"csv"}, trace |-> <<>>, failed |-> {}]

Idle == [NewEnriched("") EXCEPT !.pc = "idle"]

Invoked(e, step, o) ==
    [e EXCEPT !.trace = Append(@, step),
              !.failed = IF o \in Failures THEN @ \cup {step} ELSE @,
              !.pc = NextStep(step)]

Skipped(e, step) == [e EXCEPT !.pc = NextStep(step)]

\* The nil response is dereferenced for the log line: the goroutine panics.
Panicked(e, step) ==
    [e EXCEPT !.trace = Append(@, step), !.failed = @ \cup {step},
              !.pc = "panicked"]

DoSpotify(e, o) ==
    LET found == o \in {"hit", "hit_no_album", "hit_bare"}
        alb == o = "hit"
        e1 == Invoked(e, "spotify", o)
        albURL == IF alb THEN "spotify_album_url" ELSE ""
    IN  [e1 EXCEPT !.aid = IF found THEN "artist_id" ELSE "",
                   !.followers = IF found THEN 1000 ELSE 0,
                   !.popularity = IF found THEN 4 ELSE 0,
                   !.spGenres = IF found /\ o # "hit_bare" THEN <<"Black Metal">> ELSE <<>>,
                   !.albumID = IF alb THEN "album_id" ELSE "",
                   !.albumURL = albURL,
                   !.cover = IF alb THEN "cover_url" ELSE "",
                   !.previewURL = albURL,
                   !.sources = IF albURL # "" THEN @ \cup {"spotify_album"} ELSE @]

\* The album detail is fetched whatever the label is.
DoSpotifyLabelUnguarded(e, o) ==
    LET e1 == Invoked(e, "spotify_label", o)
    IN  IF o = "hit"
        THEN [e1 EXCEPT !.label = "label_from_spotify",
                        !.sources = @ \cup {"spotify_label"}]
        ELSE e1

DoSpotifyLabel(e, o) ==
    IF e.label = "" /\ e.albumID # ""
    THEN LET e1 == Invoked(e, "spotify_label", o)
         IN  IF o = "hit"
             THEN [e1 EXCEPT !.label = "label_from_spotify",
                             !.sources = @ \cup {"spotify_label"}]
             ELSE e1
    ELSE Skipped(e, "spotify_label")

DoYouTube(e, o) ==
    LET e1 == Invoked(e, "youtube", o)
    IN  IF o = "hit"
        THEN [e1 EXCEPT !.youtube = "youtube_watch_url",
                        !.sources = @ \cup {"youtube_preview"}]
        ELSE e1

DoMAGenres(e, o) ==
    LET e1 == Invoked(e, "ma_genres", o)
    IN  IF o = "hit"
        THEN [e1 EXCEPT !.ma = parseMAGenres(<<"Death Metal">>),
                        !.sources = @ \cup {"metal_archives_band"}]
        ELSE e1

DoMACountry(e, o) ==
    IF e.country = ""
    THEN IF o \in {"neterr", "neterr2"}
         THEN Panicked(e, "ma_country")
         ELSE LET e1 == Invoked(e, "ma_country", o)
              IN  IF o = "hit"
                  THEN [e1 EXCEPT !.country = "SE",
                                  !.sources = @ \cup {"metal_archives_country"}]
                  ELSE e1
    ELSE Skipped(e, "ma_country")

DoDiscogsStyles(e, o) ==
    LET e1 == Invoked(e, "discogs_styles", o)
    IN  IF o = "hit"
        THEN [e1 EXCEPT !.dc = normalizeList(<<"Death Metal", "Doom">>),
                        !.sources = @ \cup {"discogs_style"}]
        ELSE e1

\* The music-graph lookup made also when a country is already set.
DoMBCountryUnguarded(e, o) ==
    LET e1 == Invoked(e, "mb_country", o)
    IN  IF o = "hit"
        THEN [e1 EXCEPT !.country = "NO",
                        !.sources = @ \cup {"musicbrainz_country"}]
        ELSE e1

DoMBCountry(e, o) ==
    IF e.country = ""
    THEN IF o \in {"neterr", "neterr2"}
         THEN Panicked(e, "mb_country")
         ELSE LET e1 == Invoked(e, "mb_country", o)
              IN  IF o = "hit"
                  THEN [e1 EXCEPT !.country = "NO",
                                  !.sources = @ \cup {"musicbrainz_country"}]
                  ELSE e1
    ELSE Skipped(e, "mb_country")

\* The secondary catalog's country kept without its source tag.
DoDiscogsCountryUntagged(e, o) ==
    IF e.country = ""
    THEN LET e1 == Invoked(e, "discogs_country", o)
         IN  IF o = "hit" THEN [e1 EXCEPT !.country = "FI"] ELSE e1
    ELSE Skipped(e, "discogs_country")

DoDiscogsCountry(e, o) ==
    IF e.country = ""
    THEN LET e1 == Invoked(e, "discogs_country", o)
         IN  IF o = "hit"
             THEN [e1 EXCEPT !.country = "FI",
                             !.sources = @ \cup {"discogs_country"}]
             ELSE e1
    ELSE Skipped(e, "discogs_country")

DoGenreMerge(e) ==
    LET sp == normalizeList(e.spGenres)
        e1 == [e EXCEPT !.trace = Append(@, "genre_merge"),
                        !.pc = NextStep("genre_merge")]
    IN  [e1 EXCEPT !.genres = unionPreserve(e.ma, e.dc, sp),
                   !.sources = IF Len(sp) > 0 /\ e.aid # ""
                               THEN @ \cup {"spotify_genres"} ELSE @]

\* resolveLabelInfo and what enrichRelease does with its three results;
\* "hit" yields a link, a website and a name, "empty" and failures nothing.
DoLabelInfo(e, o) ==
    LET e1 == Invoked(e, "label_info", o)
        discogsLink == IF o = "hit" THEN "discogs_label_url" ELSE ""
        website == IF o = "hit" THEN "label_site" ELSE ""
        finalName == IF o = "hit" THEN "label_from_discogs" ELSE ""
    IN  [e1 EXCEPT !.labelDiscogsURL = discogsLink,
                   !.labelURL = website,
                   !.label = IF e.label = "" /\ finalName # "" THEN finalName ELSE @,
                   !.sources = @ \cup (IF discogsLink # "" THEN {"discogs_label"} ELSE {})
                                 \cup (IF website # "" THEN {"label_website"} ELSE {})
                                 \cup (IF e.label = "" /\ finalName # ""
                                       THEN {"discogs_label_name"} ELSE {})]

DoScore(e) ==
    [e EXCEPT !.score = computeScore(e.followers, e.popularity),
              !.trace = Append(@, "score"),
              !.pc = NextStep("score")]

EnrichStep(e, o) ==
    CASE e.pc = "spotify" -> DoSpotify(e, o)
      [] e.pc = "spotify_label" -> DoSpotifyLabel(e, o)
      [] e.pc = "youtube" -> DoYouTube(e, o)
      [] e.pc = "ma_genres" -> DoMAGenres(e, o)
      [] e.pc = "ma_country" -> DoMACountry(e, o)
      [] e.pc = "discogs_styles" -> DoDiscogsStyles(e, o)
      [] e.pc = "mb_country" -> DoMBCountry(e, o)
      [] e.pc = "discogs_country" -> DoDiscogsCountry(e, o)
      [] e.pc = "genre_merge" -> DoGenreMerge(e)
      [] e.pc = "label_info" -> DoLabelInfo(e, o)
      [] e.pc = "score" -> DoScore(e)
      [] OTHER -> e

\* enrichRelease run to its end under the provider behaviour os.
RECURSIVE RunEnrich(_, _)
RunEnrich(e, os) ==
    IF e.pc \in {"returned", "panicked", "idle"} THEN e
    ELSE RunEnrich(EnrichStep(e, os[e.pc]), os)

enrichRelease(label, os) == RunEnrich(NewEnriched(label), os)

-----------------------------------------------------------------------------
(* State                                                                   *)

VARIABLES
    workers,        \* the -workers flag after the clamp to 1
    enableWrite,    \* the -enable-write flag
    linesRead,      \* calls of r.Read() that returned a record or an error
    rowNum,         \* rowNum of the producer
    prodPc,         \* "read", "send" (blocked on csvRows <- row) or "done"
    prodRow,        \* the row the producer is sending
    csvRows,        \* buffered channel csvRows
    csvClosed,      \* close(csvRows) happened
    results,        \* buffered channel results
    resultsClosed,  \* close(results) happened
    seen,           \* the run-scoped dedup set, guarded by seenMu
    wpc,            \* position of each worker goroutine
    wrow,           \* the row each worker holds
    wres,           \* the status each worker is about to send
    totalRows, successCount, skipCount, errorCount,
    mainPc,         \* "range" over results, or "done" (summary logged)
    crashed,        \* an unrecovered panic ended the process
    catalog,        \* rows of the releases table, as CatalogIdent
    sent,           \* history: the rows the producer enqueued
    calls,          \* history: per rowNum, how often each call was made
    outs,           \* history: per rowNum, the statuses sent on results
    en,             \* one enrichRelease call, step by step
    fn,             \* one call of a pure function: its arguments and result
    creds,          \* SPOTIFY_CLIENT_ID and SPOTIFY_CLIENT_SECRET are both set
    spotTok,        \* package variable spotTok
    spotExp,        \* package variable spotExp, in seconds of the clock
    now,            \* time.Now(), in seconds
    tcall,          \* each goroutine's call of getSpotifyToken
    fetched         \* history: the last token stored and when

prodVars == <<linesRead, rowNum, prodPc, prodRow>>
chanVars == <<csvRows, csvClosed, results, resultsClosed>>
workerVars == <<seen, wpc, wrow, wres>>
countVars == <<totalRows, successCount, skipCount, errorCount>>
histVars == <<sent, calls, outs>>
dbVars == <<catalog>>
pipeVars == <<workers, enableWrite, prodVars, chanVars, workerVars, countVars,
              mainPc, crashed, dbVars, histVars>>
tokVars == <<creds, spotTok, spotExp, now, tcall, fetched>>
auxVars == <<fn, tokVars>>
vars == <<pipeVars, en, auxVars>>

NoCalls == [deq |-> 0, enrich |-> 0, exists |-> 0, insert |-> 0,
            existsErr |-> 0, insertErr |-> 0, existsFound |-> 0]

\* Catalog contents a persist-mode run starts from: one release of an
\* earlier run, so that the existence check can answer either way.
InitialCatalogs == {{CatalogIdent(ArtistA1, AlbumX, GoodDate)}}

\* workers < 1 is raised to 1 before the pool is started.
ClampWorkers(n) == IF n < 1 THEN 1 ELSE n

\* Channels three times as large as the pool.
ChanCapThrice == workers * 3

\* make(chan csvRow, workers*2); make(chan result, workers*2)
ChanCap == workers * 2

PipeInit ==
    /\ \E n \in 0..MaxWorkers : workers = ClampWorkers(n)
    /\ enableWrite \in BOOLEAN
    /\ linesRead = 0
    /\ rowNum = 0
    /\ prodPc = "read"
    /\ prodRow = NoRow
    /\ csvRows = <<>>
    /\ csvClosed = FALSE
    /\ results = <<>>
    /\ resultsClosed = FALSE
    /\ seen = {}
    /\ wpc = [w \in WorkerIds |-> IF w <= workers THEN "recv" ELSE "off"]
    /\ wrow = [w \in WorkerIds |-> NoRow]
    /\ wres = [w \in WorkerIds |-> "none"]
    /\ totalRows = 0
    /\ successCount = 0
    /\ skipCount = 0
    /\ errorCount = 0
    /\ mainPc = "range"
    /\ crashed = FALSE
    /\ catalog \in (IF enableWrite THEN InitialCatalogs ELSE {{}})
    /\ sent = {}
    /\ calls = [r \in Rows |-> NoCalls]
    /\ outs = [r \in Rows |-> <<>>]

\* No pure-function call under examination.
NoCall == [op |-> "none"]

\* A goroutine that is not inside getSpotifyToken.
\* fresh, stale and expect describe the cache as the last call found it,
\* asked whether the call issued a token request, ttl is tok.ExpiresIn.
NoTokenCall == [pc |-> "idle", fresh |-> FALSE, stale |-> FALSE, expect |-> "",
                ret |-> "none", asked |-> FALSE, ttl |-> 0]

\* The last token written to the cache and the time and expires_in of the
\* last expiry written to it.
NoFetch == [done |-> FALSE, at |-> 0, ttl |-> 0, value |-> "", vttl |-> 0]

\* var spotTok string; var spotExp time.Time: both zero at start.
TokIdle ==
    /\ spotTok = ""
    /\ spotExp = 0
    /\ now = 0
    /\ tcall = [w \in WorkerIds |-> NoTokenCall]
    /\ fetched = NoFetch

AuxIdle == fn = NoCall /\ creds = TRUE /\ TokIdle

Init == PipeInit /\ en = Idle /\ AuxIdle

Running == ~crashed /\ mainPc # "done"

-----------------------------------------------------------------------------
(* Producer goroutine                                                      *)

\* How one loop iteration classifies what r.Read() returned.
Classify(r) ==
    IF r.err # "none" THEN "read_error"
    ELSE LET dateISO == r.rec[1]
             artist == TrimSpace(r.rec[2])
             album == TrimSpace(r.rec[3])
         IN  IF dateISO = <<>> \/ artist = <<>> \/ album = <<>> THEN "missing"
             ELSE IF ~ParsesAsDate(dateISO) THEN "bad_date"
             ELSE "valid"

ProducerRead ==
    /\ Running
    /\ prodPc = "read"
    /\ linesRead < MaxRows
    /\ \E r \in ReadPool :
        LET kind == Classify(r) IN
        /\ linesRead' = linesRead + 1
        /\ IF kind = "read_error"
           THEN /\ errorCount' = errorCount + 1
                /\ UNCHANGED <<rowNum, prodPc, prodRow, skipCount, totalRows>>
           ELSE /\ rowNum' = rowNum + 1
                /\ UNCHANGED errorCount
                /\ IF kind = "valid"
                   THEN /\ totalRows' = totalRows + 1
                        /\ prodRow' = [rowNum |-> rowNum + 1,
                                       dateISO |-> r.rec[1],
                                       artist |-> TrimSpace(r.rec[2]),
                                       album |-> TrimSpace(r.rec[3]),
                                       label |-> TrimSpace(r.rec[4])]
                        /\ prodPc' = "send"
                        /\ UNCHANGED skipCount
                   ELSE /\ skipCount' = skipCount + 1
                        /\ UNCHANGED <<totalRows, prodRow, prodPc>>
    /\ UNCHANGED <<workers, enableWrite, chanVars, workerVars, successCount,
                   mainPc, crashed, dbVars, histVars, en, auxVars>>

\* csvRows <- csvRow{...}: blocks while the buffer is full.
ProducerSend ==
    /\ Running
    /\ prodPc = "send"
    /\ Len(csvRows) < ChanCap
    /\ csvRows' = Append(csvRows, prodRow)
    /\ sent' = sent \cup {prodRow}
    /\ prodRow' = NoRow
    /\ prodPc' = "read"
    /\ UNCHANGED <<workers, enableWrite, linesRead, rowNum, csvClosed,
                   results, resultsClosed, workerVars, countVars, mainPc,
                   crashed, dbVars, calls, outs, en, auxVars>>

\* r.Read() returned io.EOF.
ProducerEOF ==
    /\ Running
    /\ prodPc = "read"
    /\ csvClosed' = TRUE
    /\ prodPc' = "done"
    /\ UNCHANGED <<workers, enableWrite, linesRead, rowNum, prodRow,
                   csvRows, results, resultsClosed, workerVars, countVars,
                   mainPc, crashed, dbVars, histVars, en, auxVars>>

-----------------------------------------------------------------------------
(* Worker goroutines                                                       *)

Steps == {enrichOrder[i] : i \in 1..Len(enrichOrder)}

\* Provider behaviour during one enrichRelease call of a worker: every
\* lookup answers alike, except that at most one fails on the network.
ProviderBehaviours ==
    {[s \in Steps |-> IF s = f THEN "neterr" ELSE base] :
        f \in Steps \cup {"none"}, base \in {"hit", "empty"}}

LabelToken(label) == IF TrimSpace(label) = <<>> THEN "" ELSE "label_from_csv"

\* How enrichRelease can end for a row with the given label: the set of
\* final positions ("returned" or "panicked") over the provider behaviours.
EnrichEnds ==
    [l \in {"", "label_from_csv"} |->
        {enrichRelease(l, os).pc : os \in ProviderBehaviours}]

Bump(c, r, what) == [c EXCEPT ![r][what] = @ + 1]

ReceivedKeepsRow(q) == q

\* The channel after a receive: the row handed to the worker leaves it.
Received(q) == Tail(q)

\* for row := range csvRows, a buffered row is available.
WorkerRecv(w) ==
    /\ Running
    /\ wpc[w] = "recv"
    /\ csvRows # <<>>
    /\ wrow' = [wrow EXCEPT ![w] = Head(csvRows)]
    /\ csvRows' = Received(csvRows)
    /\ calls' = Bump(calls, Head(csvRows).rowNum, "deq")
    /\ wpc' = [wpc EXCEPT ![w] = "claim"]
    /\ UNCHANGED <<workers, enableWrite, prodVars, csvClosed, results,
                   resultsClosed, seen, wres, countVars, mainPc, crashed,
                   dbVars, sent, outs, en, auxVars>>

\* for row := range csvRows ends: the channel is closed and drained.
WorkerExit(w) ==
    /\ Running
    /\ wpc[w] = "recv"
    /\ csvRows = <<>>
    /\ csvClosed
    /\ wpc' = [wpc EXCEPT ![w] = "exited"]
    /\ UNCHANGED <<workers, enableWrite, prodVars, chanVars, seen, wrow, wres,
                   countVars, mainPc, crashed, dbVars, histVars, en, auxVars>>

ClaimForgets(s, key) == s

\* seen[key] = true
Claim(s, key) == s \cup {key}

\* The section between seenMu.Lock() and seenMu.Unlock(): no other worker
\* can be inside it at the same time, so it is one step.
WorkerClaim(w) ==
    /\ Running
    /\ wpc[w] = "claim"
    /\ LET key == releaseKey(wrow[w].dateISO, wrow[w].artist, wrow[w].album) IN
        IF key \in seen
        THEN /\ wres' = [wres EXCEPT ![w] = "dupe_skip"]
             /\ wpc' = [wpc EXCEPT ![w] = "send"]
             /\ UNCHANGED seen
        ELSE /\ seen' = Claim(seen, key)
             /\ wpc' = [wpc EXCEPT ![w] = "enrich"]
             /\ UNCHANGED wres
    /\ UNCHANGED <<workers, enableWrite, prodVars, chanVars, wrow, countVars,
                   mainPc, crashed, dbVars, histVars, en, auxVars>>

AfterEnrichAlwaysPersist(write) == "exists"

\* if !enableWrite { ... results <- success; continue }
AfterEnrich(write) == IF write THEN "exists" ELSE "report_success"

\* enrichRelease(...) and the branch on enableWrite after it.  A panic in
\* the call is recovered nowhere and ends the process.
WorkerEnrich(w) ==
    /\ Running
    /\ wpc[w] = "enrich"
    /\ calls' = Bump(calls, wrow[w].rowNum, "enrich")
    /\ \E end \in EnrichEnds[LabelToken(wrow[w].label)] :
        IF end = "panicked"
        THEN /\ crashed' = TRUE
             /\ UNCHANGED <<wpc, wres>>
        ELSE /\ UNCHANGED crashed
             /\ IF AfterEnrich(enableWrite) = "report_success"
                THEN /\ wres' = [wres EXCEPT ![w] = "success"]
                     /\ wpc' = [wpc EXCEPT ![w] = "send"]
                ELSE IF ~ParsesAsDate(wrow[w].dateISO)
                THEN /\ wres' = [wres EXCEPT ![w] = "error"]
                     /\ wpc' = [wpc EXCEPT ![w] = "send"]
                ELSE /\ wpc' = [wpc EXCEPT ![w] = "exists"]
                     /\ UNCHANGED wres
    /\ UNCHANGED <<workers, enableWrite, prodVars, chanVars, seen, wrow,
                   countVars, mainPc, dbVars, sent, outs, en, auxVars>>

ExistsOutcomeInsertsAnyway(err, found) == IF found THEN "exists_skip" ELSE "insert"

\* What the worker does with the answer of releaseExists.
ExistsOutcome(err, found) ==
    IF err THEN "error" ELSE IF found THEN "exists_skip" ELSE "insert"

\* releaseExists(ctx, dbBackend, artist, album, releaseDate)
WorkerExists(w) ==
    /\ Running
    /\ wpc[w] = "exists"
    /\ \E err \in BOOLEAN :
        LET found == CatalogIdent(wrow[w].artist, wrow[w].album,
                                  wrow[w].dateISO) \in catalog
            o == ExistsOutcome(err, found)
        IN
        /\ calls' = IF err
                    THEN Bump(Bump(calls, wrow[w].rowNum, "exists"),
                              wrow[w].rowNum, "existsErr")
                    ELSE IF found
                    THEN Bump(Bump(calls, wrow[w].rowNum, "exists"),
                              wrow[w].rowNum, "existsFound")
                    ELSE Bump(calls, wrow[w].rowNum, "exists")
        /\ IF o = "insert"
            THEN /\ wpc' = [wpc EXCEPT ![w] = "insert"]
                 /\ UNCHANGED wres
            ELSE /\ wres' = [wres EXCEPT ![w] = o]
                 /\ wpc' = [wpc EXCEPT ![w] = "send"]
    /\ UNCHANGED <<workers, enableWrite, prodVars, chanVars, seen, wrow,
                   countVars, mainPc, crashed, catalog, sent, outs, en, auxVars>>

InsertOutcomeHidesError(err) == "success"

InsertOutcome(err) == IF err THEN "error" ELSE "success"

\* createReleaseFromEnriched(ctx, dbBackend, enriched)
WorkerInsert(w) ==
    /\ Running
    /\ wpc[w] = "insert"
    /\ \E err \in BOOLEAN :
        /\ calls' = IF err
                    THEN Bump(Bump(calls, wrow[w].rowNum, "insert"),
                              wrow[w].rowNum, "insertErr")
                    ELSE Bump(calls, wrow[w].rowNum, "insert")
        /\ wres' = [wres EXCEPT ![w] = InsertOutcome(err)]
        /\ catalog' = IF err THEN catalog
                      ELSE catalog \cup {CatalogIdent(wrow[w].artist,
                                           wrow[w].album, wrow[w].dateISO)}
    /\ wpc' = [wpc EXCEPT ![w] = "send"]
    /\ UNCHANGED <<workers, enableWrite, prodVars, chanVars, seen, wrow,
                   countVars, mainPc, crashed, sent, outs, en, auxVars>>

\* results <- result{...}; continue.  Blocks while the buffer is full.
WorkerSend(w) ==
    /\ Running
    /\ wpc[w] = "send"
    /\ Len(results) < ChanCap
    /\ results' = Append(results, [rowNum |-> wrow[w].rowNum, status |-> wres[w]])
    /\ outs' = [outs EXCEPT ![wrow[w].rowNum] = Append(@, wres[w])]
    /\ wpc' = [wpc EXCEPT ![w] = "recv"]
    /\ wrow' = [wrow EXCEPT ![w] = NoRow]
    /\ wres' = [wres EXCEPT ![w] = "none"]
    /\ UNCHANGED <<workers, enableWrite, prodVars, csvRows, csvClosed,
                   resultsClosed, seen, countVars, mainPc, crashed, dbVars,
                   sent, calls, en, auxVars>>

-----------------------------------------------------------------------------
(* Closer goroutine and the aggregation loop of main                       *)

\* close(results) without wg.Wait().
CloseResultsEarly ==
    /\ Running
    /\ ~resultsClosed
    /\ resultsClosed' = TRUE
    /\ UNCHANGED <<workers, enableWrite, prodVars, csvRows, csvClosed, results,
                   workerVars, countVars, mainPc, crashed, dbVars, histVars, en, auxVars>>

\* wg.Wait(); close(results)
CloseResults ==
    /\ Running
    /\ ~resultsClosed
    /\ \A w \in 1..workers : wpc[w] = "exited"
    /\ resultsClosed' = TRUE
    /\ UNCHANGED <<workers, enableWrite, prodVars, csvRows, csvClosed, results,
                   workerVars, countVars, mainPc, crashed, dbVars, histVars, en, auxVars>>

TallySkipsDupes(status) ==
    CASE status = "success" -> "success"
      [] status = "exists_skip" -> "skip"
      [] status = "error" -> "error"
      [] OTHER -> "none"

\* The switch on res.status: which counter a result increments.
Tally(status) ==
    CASE status = "success" -> "success"
      [] status \in {"exists_skip", "dupe_skip"} -> "skip"
      [] status = "error" -> "error"
      [] OTHER -> "none"

\* for res := range results, one iteration.
MainRecv ==
    /\ Running
    /\ results # <<>>
    /\ LET t == Tally(Head(results).status) IN
        /\ successCount' = successCount + (IF t = "success" THEN 1 ELSE 0)
        /\ skipCount' = skipCount + (IF t = "skip" THEN 1 ELSE 0)
        /\ errorCount' = errorCount + (IF t = "error" THEN 1 ELSE 0)
    /\ results' = Tail(results)
    /\ UNCHANGED <<workers, enableWrite, prodVars, csvRows, csvClosed,
                   resultsClosed, workerVars, totalRows, mainPc, crashed,
                   dbVars, histVars, en, auxVars>>

\* The range ends (results closed and drained) and the summary is logged.
MainDone ==
    /\ Running
    /\ results = <<>>
    /\ resultsClosed
    /\ mainPc' = "done"
    /\ UNCHANGED <<workers, enableWrite, prodVars, chanVars, workerVars,
                   countVars, crashed, dbVars, histVars, en, auxVars>>

Next ==
    \/ ProducerRead
    \/ ProducerSend
    \/ ProducerEOF
    \/ \E w \in WorkerIds : WorkerRecv(w)
    \/ \E w \in WorkerIds : WorkerExit(w)
    \/ \E w \in WorkerIds : WorkerClaim(w)
    \/ \E w \in WorkerIds : WorkerEnrich(w)
    \/ \E w \in WorkerIds : WorkerExists(w)
    \/ \E w \in WorkerIds : WorkerInsert(w)
    \/ \E w \in WorkerIds : WorkerSend(w)
    \/ CloseResults
    \/ MainRecv
    \/ MainDone

Spec == Init /\ [][Next]_vars

-----------------------------------------------------------------------------
(* enrichRelease step by step: one call, every provider behaviour          *)

EnrichInit ==
    /\ PipeInit
    /\ workers = 1
    /\ enableWrite = FALSE
    /\ en \in {NewEnriched(l) : l \in {"", "label_from_csv"}}
    /\ AuxIdle

EnrichSpotify ==
    /\ en.pc = "spotify"
    /\ \E o \in SpotifyOutcomes : en' = DoSpotify(en, o)
    /\ UNCHANGED <<pipeVars, auxVars>>

EnrichSpotifyLabel ==
    /\ en.pc = "spotify_label"
    /\ \E o \in Outcomes : en' = DoSpotifyLabel(en, o)
    /\ UNCHANGED <<pipeVars, auxVars>>

EnrichYouTube ==
    /\ en.pc = "youtube"
    /\ \E o \in Outcomes : en' = DoYouTube(en, o)
    /\ UNCHANGED <<pipeVars, auxVars>>

EnrichMAGenres ==
    /\ en.pc = "ma_genres"
    /\ \E o \in Outcomes : en' = DoMAGenres(en, o)
    /\ UNCHANGED <<pipeVars, auxVars>>

EnrichMACountry ==
    /\ en.pc = "ma_country"
    /\ \E o \in Outcomes : en' = DoMACountry(en, o)
    /\ UNCHANGED <<pipeVars, auxVars>>

EnrichDiscogsStyles ==
    /\ en.pc = "discogs_styles"
    /\ \E o \in Outcomes : en' = DoDiscogsStyles(en, o)
    /\ UNCHANGED <<pipeVars, auxVars>>

EnrichMBCountry ==
    /\ en.pc = "mb_country"
    /\ \E o \in Outcomes : en' = DoMBCountry(en, o)
    /\ UNCHANGED <<pipeVars, auxVars>>

EnrichDiscogsCountry ==
    /\ en.pc = "discogs_country"
    /\ \E o \in Outcomes : en' = DoDiscogsCountry(en, o)
    /\ UNCHANGED <<pipeVars, auxVars>>

EnrichGenreMerge ==
    /\ en.pc = "genre_merge"
    /\ en' = DoGenreMerge(en)
    /\ UNCHANGED <<pipeVars, auxVars>>

EnrichLabelInfo ==
    /\ en.pc = "label_info"
    /\ \E o \in Outcomes : en' = DoLabelInfo(en, o)
    /\ UNCHANGED <<pipeVars, auxVars>>

EnrichScore ==
    /\ en.pc = "score"
    /\ en' = DoScore(en)
    /\ UNCHANGED <<pipeVars, auxVars>>

EnrichNext ==
    \/ EnrichSpotify
    \/ EnrichSpotifyLabel
    \/ EnrichYouTube
    \/ EnrichMAGenres
    \/ EnrichMACountry
    \/ EnrichDiscogsStyles
    \/ EnrichMBCountry
    \/ EnrichDiscogsCountry
    \/ EnrichGenreMerge
    \/ EnrichLabelInfo
    \/ EnrichScore

EnrichSpec == EnrichInit /\ [][EnrichNext]_vars

-----------------------------------------------------------------------------
(* pickOfficialWebsite and normalizeURL                                    *)

\* strings.Contains(s, sub)
Contains(s, sub) ==
    \E i \in 1..(Len(s) - Len(sub) + 1) : SubSeq(s, i, i + Len(sub) - 1) = sub

\* strings.HasPrefix(s, p)
HasPrefix(s, p) == Len(s) >= Len(p) /\ SubSeq(s, 1, Len(p)) = p

Http == <<"h", "t", "t", "p", ":", "/", "/">>

\* Length of the match of `https?://` that starts at position i, 0 if none.
ProtocolAt(s, i) ==
    LET rest == SubSeq(s, i, Len(s))
    IN  IF HasPrefix(rest, <<"h", "t", "t", "p", "s", ":", "/", "/">>) THEN 8
        ELSE IF HasPrefix(rest, Http) THEN 7
        ELSE 0

\* urlRx.FindAllString(s, -1) from position i on: the leftmost matches of
\* `https?://[^\s'"<>)\]]+`, each as long as possible, none overlapping.
RECURSIVE FindAllURLs(_, _)
FindAllURLs(s, i) ==
    LET RECURSIVE RunEnd(_)
        RunEnd(j) ==
            IF j <= Len(s) /\ s[j] \notin {" ", "'", "\"", "<", ">", ")", "]"}
            THEN RunEnd(j + 1)
            ELSE j - 1
        p == ProtocolAt(s, i)
        e == RunEnd(i + p)
    IN  IF i > Len(s) THEN <<>>
        ELSE IF p > 0 /\ e >= i + p
             THEN <<SubSeq(s, i, e)>> \o FindAllURLs(s, e + 1)
             ELSE FindAllURLs(s, i + 1)

\* strings.TrimRight(u, ".,);]")
RECURSIVE TrimRightCutset(_)
TrimRightCutset(u) ==
    IF u # <<>> /\ u[Len(u)] \in {".", ",", ")", ";", "]"}
    THEN TrimRightCutset(SubSeq(u, 1, Len(u) - 1))
    ELSE u

\* The keys of candsMap after the loop over urls.
Candidates(urls) ==
    LET OfRaw(entry) ==
            LET raw == TrimSpace(entry)
                found == FindAllURLs(raw, 1)
                matches ==
                    IF found = <<>> /\ raw # <<>> /\ ~Contains(raw, <<":", "/", "/">>)
                    THEN <<Http \o raw>>
                    ELSE found
                trimmed == {TrimRightCutset(matches[k]) : k \in 1..Len(matches)}
            IN  {u \in trimmed :
                    HasPrefix(u, <<"h", "t", "t", "p", "s", ":", "/", "/">>) \/ HasPrefix(u, Http)}
    IN  UNION {OfRaw(urls[k]) : k \in 1..Len(urls)}

\* The characters of the URL entries in the order of their bytes.
AsciiOrder ==
    <<" ", "#", ")", ".", "/", "1", ":", "=", "?", "L", "N", "O", "X", "_",
      "a", "b", "c", "e", "f", "g", "i", "k", "l", "m", "n", "o", "p", "q",
      "r", "s", "t", "x", "y">>

\* The less function of sort.SliceStable(cands, ...): by length, then by bytes.
LessURL(a, b) ==
    LET Byte(c) == CHOOSE k \in 1..Len(AsciiOrder) : AsciiOrder[k] = c
        d == CHOOSE k \in 1..Len(a) : a[k] # b[k] /\ \A j \in 1..(k - 1) : a[j] = b[j]
    IN  IF Len(a) = Len(b)
        THEN a # b /\ Byte(a[d]) < Byte(b[d])
        ELSE Len(a) < Len(b)

\* cands after the sort; the keys of a map are distinct, so the order is total.
RECURSIVE SortCands(_)
SortCands(S) ==
    IF S = {} THEN <<>>
    ELSE LET m == CHOOSE u \in S : \A v \in S \ {u} : LessURL(u, v)
         IN  <<m>> \o SortCands(S \ {m})

\* The closure isBad: the lower-cased URL contains one of the listed names.
isBad(u) ==
    LET bad == {<<"f", "a", "c", "e", "b", "o", "o", "k", ".", "c", "o", "m">>,
                <<"i", "n", "s", "t", "a", "g", "r", "a", "m", ".", "c", "o", "m">>,
                <<"t", "w", "i", "t", "t", "e", "r", ".", "c", "o", "m">>,
                <<"x", ".", "c", "o", "m">>,
                <<"b", "a", "n", "d", "c", "a", "m", "p", ".", "c", "o", "m">>,
                <<"s", "o", "u", "n", "d", "c", "l", "o", "u", "d", ".", "c", "o", "m">>,
                <<"y", "o", "u", "t", "u", "b", "e", ".", "c", "o", "m">>,
                <<"t", "i", "k", "t", "o", "k", ".", "c", "o", "m">>,
                <<"l", "i", "n", "k", "t", "r", ".", "e", "e">>}
    IN  \E h \in bad : Contains(ToLower(u), h)

\* The part of s in front of the first character of stops.
Before(s, stops) ==
    LET hits == {k \in 1..Len(s) : s[k] \in stops}
    IN  IF hits = {} THEN s
        ELSE SubSeq(s, 1, (CHOOSE k \in hits : \A j \in hits : k <= j) - 1)

\* url.Parse splits off the fragment at "#", the query at "?", the scheme at
\* "://" and the host at the next "/"; of its errors the one the entries can
\* raise is a space in the host.
normalizeURL(rawURL) ==
    LET raw == TrimSpace(rawURL)
        later == {i \in 2..Len(raw) : ProtocolAt(raw, i) > 0}
        firstURL ==
            IF later = {} THEN raw
            ELSE SubSeq(raw, 1, (CHOOSE i \in later : \A j \in later : i <= j) - 1)
        p == ProtocolAt(firstURL, 1)
        scheme == SubSeq(firstURL, 1, p - 3)
        noFragment == Before(firstURL, {"#"})
        noQuery == Before(noFragment, {"?"})
        rawQuery == SubSeq(noFragment, Len(noQuery) + 2, Len(noFragment))
        authority == SubSeq(noQuery, p + 1, Len(noQuery))
        host == Before(authority, {"/"})
        path == SubSeq(authority, Len(host) + 1, Len(authority))
    IN  IF ProtocolAt(raw, 1) = 0 THEN <<>>
        ELSE IF " " \in {host[k] : k \in 1..Len(host)} THEN <<>>
        ELSE IF host = <<>> THEN <<>>
        ELSE scheme \o <<":", "/", "/">> \o host \o path
                 \o (IF rawQuery # <<>> THEN <<"?">> \o rawQuery ELSE <<>>)

\* The marker is looked for in the first entry only.
HasMarkerFirstOnly(urls) ==
    Contains(urls[1], <<"#", "N", "o", "t", "_", "O", "n", "_", "L", "a", "b", "e", "l">>)

\* Some entry contains "#Not_On_Label": the loop returns "" on reaching it.
HasMarker(urls) ==
    \E k \in 1..Len(urls) :
        Contains(urls[k], <<"#", "N", "o", "t", "_", "O", "n", "_", "L", "a", "b", "e", "l">>)

\* No fallback to a candidate that was passed over.
pickFallbackAbsent(cands) == <<>>

\* The `if len(cands) > 0` block after the loop over cands.
pickFallback(cands) == IF cands # <<>> THEN normalizeURL(cands[1]) ELSE <<>>

\* The loop over the sorted cands: the first one that is not bad and
\* normalizes; "" is the empty sequence.
pickOfficialWebsite(urls) ==
    LET cands == SortCands(Candidates(urls))
        Usable(u) == ~isBad(u) /\ normalizeURL(u) # <<>>
        usable == SelectSeq(cands, Usable)
    IN  IF urls = <<>> \/ HasMarker(urls) THEN <<>>
        ELSE IF usable # <<>> THEN normalizeURL(usable[1])
        ELSE pickFallback(cands)

\* The first loop as it runs: the entries in the order given, a return at
\* the first entry with the marker, the matches of the others put in candsMap.
RECURSIVE CollectCands(_, _)
CollectCands(urls, candsMap) ==
    IF urls = <<>> THEN [marked |-> FALSE, cands |-> candsMap]
    ELSE IF HasMarker(<<Head(urls)>>) THEN [marked |-> TRUE, cands |-> candsMap]
    ELSE CollectCands(Tail(urls), candsMap \cup Candidates(<<Head(urls)>>))

\* sort.SliceStable with the less function LessURL: each element is put
\* behind the elements it is not less than, equal ones keeping their order.
RECURSIVE SortSliceStable(_)
SortSliceStable(s) ==
    IF Len(s) <= 1 THEN s
    ELSE LET init == SortSliceStable(SubSeq(s, 1, Len(s) - 1))
             x == s[Len(s)]
             k == Cardinality({i \in 1..Len(init) : ~LessURL(x, init[i])})
         IN  SubSeq(init, 1, k) \o <<x>> \o SubSeq(init, k + 1, Len(init))

\* The ways `for u := range candsMap` can enumerate the keys of the map.
MapOrders(S) ==
    {o \in [1..Cardinality(S) -> S] : \A i, j \in 1..Cardinality(S) : o[i] = o[j] => i = j}

\* The second and third loop over cands, in the order cands has.
PickFrom(cands) ==
    LET Usable(u) == ~isBad(u) /\ normalizeURL(u) # <<>>
        usable == SelectSeq(cands, Usable)
    IN  IF usable # <<>> THEN normalizeURL(usable[1]) ELSE pickFallback(cands)

\* cands is left in the order the map was enumerated.
pickOfficialWebsiteUnsorted(urls, order) ==
    LET c == CollectCands(urls, {})
    IN  IF urls = <<>> \/ c.marked THEN <<>> ELSE PickFrom(order)

\* pickOfficialWebsite statement by statement, for the order in which the
\* map is enumerated (order lists the keys of candsMap).
pickOfficialWebsiteInOrder(urls, order) ==
    LET c == CollectCands(urls, {})
    IN  IF urls = <<>> \/ c.marked THEN <<>> ELSE PickFrom(SortSliceStable(order))

-----------------------------------------------------------------------------
(* resolveLabelInfo                                                        *)

\* The release-based lookup counts only with both a link and a website.
ReleaseLookupNeedsBoth(dlink, site) == dlink # "" /\ site # ""

\* if dlink != "" || site != "" { ... return dlink, site, name }
ReleaseLookupSuffices(dlink, site) == dlink # "" \/ site # ""

\* rel is the answer of resolveFromDiscogsRelease and srch the answer
\* resolveFromDiscogsLabelSearch gives when asked; searched and query tell
\* whether and with what the search was issued.
resolveLabelInfo(tok, artist, album, labelHint, rel, srch) ==
    LET none == [dlink |-> "", site |-> "", name |-> <<>>]
        q == IF TrimSpace(labelHint) = <<>> THEN artist \o <<" ">> \o album ELSE labelHint
    IN  IF ~tok
        THEN [released |-> FALSE, searched |-> FALSE, query |-> <<>>, out |-> none]
        ELSE IF ReleaseLookupSuffices(rel.dlink, rel.site)
        THEN [released |-> TRUE, searched |-> FALSE, query |-> <<>>,
              out |-> [rel EXCEPT !.name = IF @ = <<>> THEN TrimSpace(labelHint) ELSE @]]
        ELSE [released |-> TRUE, searched |-> TRUE, query |-> q, out |-> srch]

-----------------------------------------------------------------------------
(* lookupMetalArchivesBandGenres                                           *)

\* The partial-match search is left out.
lookupMetalArchivesBandGenresNoPartial(exact, partial, html) ==
    IF exact # <<>> THEN [trace |-> <<"exact">>, out |-> exact]
    ELSE [trace |-> <<"exact", "html">>, out |-> html]

\* exact, partial and html are what maAdvancedJSONGenres(artist, true, ...),
\* maAdvancedJSONGenres(artist, false, ...) and maHTMLGenresFallback return
\* when called: nil on a failed request and on no match alike.
lookupMetalArchivesBandGenres(exact, partial, html) ==
    IF exact # <<>> THEN [trace |-> <<"exact">>, out |-> exact]
    ELSE IF partial # <<>> THEN [trace |-> <<"exact", "partial">>, out |-> partial]
    ELSE [trace |-> <<"exact", "partial", "html">>, out |-> html]

-----------------------------------------------------------------------------
(* The choice of best among the candidates of a registry search            *)

\* strings.Split(s, " "), as the set of its pieces; "" splits into {""}.
RECURSIVE SplitSpace(_)
SplitSpace(s) ==
    LET first == Before(s, {" "})
    IN  IF Len(first) = Len(s) THEN {s}
        ELSE {first} \cup SplitSpace(SubSeq(s, Len(first) + 2, Len(s)))

\* norm(name) contains every piece of want.
TokenSubset(name, want) == \A t \in SplitSpace(want) : Contains(norm(name), t)

\* One loop that takes the first candidate that is equal or a token match.
bestCandidateSinglePass(names, artist) ==
    LET want == norm(artist)
        ok == {i \in 1..Len(names) : norm(names[i]) = want \/ TokenSubset(names[i], want)}
    IN  IF ok # {} THEN CHOOSE i \in ok : \A j \in ok : i <= j ELSE 0

\* The two loops that set best: the index of the first candidate whose norm
\* equals norm(artist); failing that the first token match; 0 for none.
bestCandidate(names, artist) ==
    LET want == norm(artist)
        exact == {i \in 1..Len(names) : norm(names[i]) = want}
        subset == {i \in 1..Len(names) : TokenSubset(names[i], want)}
    IN  IF exact # {} THEN CHOOSE i \in exact : \A j \in exact : i <= j
        ELSE IF subset # {} THEN CHOOSE i \in subset : \A j \in subset : i <= j
        ELSE 0

-----------------------------------------------------------------------------
(* Single calls of the pure functions: a behaviour makes one call          *)

\* Genre fields of the registry, style lists of the secondary catalog and
\* genre lists of the primary provider, as the providers return them.
MAGenreFields ==
    { <<>>, <<"Death Metal">>, <<"Death Metal", "/", "Doom">>,
      <<"DEATH METAL", ",", " death metal">>, <<"Doom", ";", " Doom ", "/">> }

StyleLists ==
    { <<>>, <<"death metal", "Doom">>, <<"Death Metal", "Doom">>,
      <<"Doom", " Doom ", " ">>, <<"Black Metal">> }

SpotifyGenreLists ==
    { <<>>, <<"black metal">>, <<"Black Metal">>, <<"Doom", "Death Metal">>,
      <<"DEATH METAL">> }

\* The genre part of enrichRelease: ma, dc and spGenres as the lookups
\* return them, merged by DoGenreMerge.
CallMergeGenres ==
    /\ fn = NoCall
    /\ \E field \in MAGenreFields, styles \in StyleLists, spg \in SpotifyGenreLists :
        LET e == [NewEnriched("") EXCEPT !.pc = "genre_merge",
                                         !.aid = "artist_id",
                                         !.ma = parseMAGenres(field),
                                         !.dc = normalizeList(styles),
                                         !.spGenres = spg]
        IN  fn' = [op |-> "merge", registry |-> field, secondary |-> styles,
                   primary |-> spg, out |-> DoGenreMerge(e).genres]
    /\ UNCHANGED <<pipeVars, en, tokVars>>

\* Follower counts around every point where floor(ln(1 + f)) steps up, and
\* popularity values in and outside 0..100.
FollowerInputs ==
    {0, 1000} \cup UNION {{ExpCeil[k] - 2, ExpCeil[k] - 1} : k \in 1..Len(ExpCeil)}

PopularityInputs == {0 - 1, 0, 4, 5, 9, 10, 50, 100, 101}

CallComputeScore ==
    /\ fn = NoCall
    /\ \E f \in FollowerInputs, p \in PopularityInputs :
        fn' = [op |-> "computeScore", wide |-> FALSE, followers |-> f,
               popularity |-> p, out |-> computeScore(f, p)]
    /\ UNCHANGED <<pipeVars, en, tokVars>>

CallComputeScoreWide ==
    /\ fn = NoCall
    /\ \E f \in WideFollowers, p \in PopularityInputs :
        fn' = [op |-> "computeScore", wide |-> TRUE, followers |-> f,
               popularity |-> p, out |-> computeScoreWide(f, p)]
    /\ UNCHANGED <<pipeVars, en, tokVars>>

\* Names passed to norm: plain, with one or two leading "The ", with a
\* dropped character in front of "the ", with diacritics and an ampersand.
NormInputs ==
    {<<"B", "a", "n", "d">>,
     <<"T", "h", "e", " ", "B", "a", "n", "d">>,
     <<"T", "h", "e", " ", "T", "h", "e", " ", "B", "a", "n", "d">>,
     <<"!", "t", "h", "e", " ", "b", "a", "n", "d">>,
     <<" ", "T", "h", "e", " ", " ", "B", "a", "n", "d", " ">>,
     <<"C", "r", "u_uml", "x", "s", "h", "a", "d", "o", "w", "s">>,
     <<"c", "r", "u", "x", "s", "h", "a", "d", "o", "w", "s">>,
     <<"A", " ", "&", " ", "B">>}

\* norm(x), norm applied to its own result, and norm("The " + x).
CallNorm ==
    /\ fn = NoCall
    /\ \E x \in NormInputs :
        fn' = [op |-> "norm", in |-> x, out |-> norm(x),
               again |-> norm(norm(x)),
               withThe |-> norm(<<"T", "h", "e", " ">> \o x)]
    /\ UNCHANGED <<pipeVars, en, tokVars>>

\* Entries of a label's URL list: bare and absolute URLs, on social hosts and
\* elsewhere, in noisy text, concatenated, marked, empty, of another scheme.
UrlEntries ==
    LET https == <<"h", "t", "t", "p", "s", ":", "/", "/">>
        label == <<"l", "a", "b", "e", "l", ".", "e", "x", "a", "m", "p", "l", "e", ".", "c", "o", "m">>
        fb == <<"f", "a", "c", "e", "b", "o", "o", "k", ".", "c", "o", "m", "/", "x">>
        borg == <<"b", ".", "o", "r", "g">>
    IN  {fb,
         Http \o label \o <<"/">>,
         Http \o <<"a", ".", "i", "o", "/", "#", "N", "o", "t", "_", "O", "n", "_", "L", "a", "b", "e", "l">>,
         https \o <<"X", ".", "c", "o", "m", "/", "l">>,
         <<"s", "e", "e", " ">> \o Http \o borg \o <<")", ".">>,
         Http \o <<"a", ".", "i", "o">> \o Http \o borg,
         <<>>,
         <<"f", "t", "p", ":", "/", "/", "f", ".", "n", "e", "t">>,
         Http \o <<"c", ".", "o", "r", "g">>,
         <<"m", "y", " ", "l", "a", "b", "e", "l">>,
         Http \o <<"m", "a", "x", ".", "c", "o", "m">>,
         Http \o borg \o <<"/", "?", "q", "=", "1", "#", "t", "o", "p">>}

CallPickOfficialWebsite ==
    /\ fn = NoCall
    /\ \E n \in 0..MaxUrls : \E urls \in [1..n -> UrlEntries] :
        fn' = [op |-> "pickOfficialWebsite", in |-> urls,
               cands |-> SortCands(Candidates(urls)),
               out |-> pickOfficialWebsite(urls)]
    /\ UNCHANGED <<pipeVars, en, tokVars>>

\* The rearrangements of a list.
Rearrangements(urls) ==
    {[i \in 1..Len(urls) |-> urls[p[i]]] :
        p \in {q \in [1..Len(urls) -> 1..Len(urls)] :
                  \A i, j \in 1..Len(urls) : q[i] = q[j] => i = j}}

\* Two calls: one with a URL list, one with a rearrangement of it, each
\* with its own enumeration order of the candidate map.
CallPickInOrder ==
    /\ fn = NoCall
    /\ \E n \in 0..MaxUrls : \E urls \in [1..n -> UrlEntries] :
        \E perm \in Rearrangements(urls) :
            \E o1 \in MapOrders(CollectCands(urls, {}).cands),
               o2 \in MapOrders(CollectCands(perm, {}).cands) :
                fn' = [op |-> "pickInOrder", in |-> urls, perm |-> perm,
                       order |-> o1, permOrder |-> o2,
                       out |-> pickOfficialWebsiteInOrder(urls, o1),
                       permOut |-> pickOfficialWebsiteInOrder(perm, o2)]
    /\ UNCHANGED <<pipeVars, en, tokVars>>

\* Answers of the two lookups of the secondary catalog: each of link,
\* website and label name present or not.
LabelAnswers ==
    [dlink : {"", "discogs_label_url"}, site : {"", "label_site"},
     name : {<<>>, <<"N", "B">>}]

CallResolveLabelInfo ==
    /\ fn = NoCall
    /\ \E tok \in BOOLEAN, hint \in {<<>>, <<" ">>, <<"E", "a", "r">>},
          rel \in LabelAnswers, srch \in LabelAnswers :
        fn' = [op |-> "resolveLabelInfo", tok |-> tok, artist |-> <<"a">>,
               album |-> <<"x">>, hint |-> hint, rel |-> rel, srch |-> srch,
               call |-> resolveLabelInfo(tok, <<"a">>, <<"x">>, hint, rel, srch)]
    /\ UNCHANGED <<pipeVars, en, tokVars>>

\* Each of the three requests fails, answers without a usable match, or
\* answers with the genres of a matching band.
CallLookupMAGenres ==
    /\ fn = NoCall
    /\ \E ex \in {"fail", "empty", "hit"}, pa \in {"fail", "empty", "hit"},
          ht \in {"fail", "empty", "hit"} :
        LET Genres(o, g) == IF o = "hit" THEN parseMAGenres(<<g>>) ELSE <<>>
        IN  fn' = [op |-> "lookupMetalArchivesBandGenres",
                   exact |-> ex, partial |-> pa, html |-> ht,
                   call |-> lookupMetalArchivesBandGenres(
                                Genres(ex, "Death Metal"), Genres(pa, " Doom "),
                                Genres(ht, "DEATH METAL"))]
    /\ UNCHANGED <<pipeVars, en, tokVars>>

\* Band names of a search answer, and names searched for.
CandidateNames ==
    {<<"b", "a", "t", "h">>,
     <<"T", "h", "e", " ", "B", "a", "t", "h">>,
     <<"b", "a", "t", "h", "o", "r", "y">>,
     <<"h", "e", "x", " ", "b", "a", "t", "h">>,
     <<"h", "e", "x">>}

CallBestCandidate ==
    /\ fn = NoCall
    /\ \E n \in 0..MaxCands : \E names \in [1..n -> CandidateNames] :
       \E artist \in {<<"B", "a", "t", "h">>, <<"b", "a", "t", "h", " ", "h", "e", "x">>,
                      <<"a", "x", "e">>, <<>>, <<"!", "!", "!">>} :
        fn' = [op |-> "bestCandidate", names |-> names, artist |-> artist,
               best |-> bestCandidate(names, artist)]
    /\ UNCHANGED <<pipeVars, en, tokVars>>

FnInit == PipeInit /\ workers = 1 /\ enableWrite = FALSE /\ en = Idle /\ AuxIdle

FnNext ==
    \/ CallMergeGenres
    \/ CallComputeScore
    \/ CallComputeScoreWide
    \/ CallNorm
    \/ CallPickOfficialWebsite
    \/ CallResolveLabelInfo
    \/ CallLookupMAGenres
    \/ CallBestCandidate

FnSpec == FnInit /\ [][FnNext]_vars

\* The pair of calls of pickOfficialWebsite on its own.
PickOrderNext == CallPickInOrder

PickOrderSpec == FnInit /\ [][PickOrderNext]_vars

-----------------------------------------------------------------------------
(* getSpotifyToken, called by every worker; time in seconds                *)

\* The 60 seconds taken off expires_in.
ExpirySlack == 60

Tokens == {"t1", "t2"}

\* expires_in of a token response: below, at and above the 60 seconds.
ExpiresIn == {59, 60, 61, 62}

\* The expiry is kept as the server sent it.
TokenExpiryNoSlack(at, ttl) == at + ttl

\* time.Now().Add(time.Duration(tok.ExpiresIn-60) * time.Second)
TokenExpiry(at, ttl) == at + ttl - ExpirySlack

\* The cache test and what follows it up to the request: a valid cached token
\* is returned, missing credentials return "", otherwise the request is sent.
TokCheck(w) ==
    /\ w <= workers
    /\ tcall[w].pc = "idle"
    /\ LET hit == spotTok # "" /\ now < spotExp
           valid == fetched.done /\ now < fetched.at + fetched.ttl - ExpirySlack
       IN  tcall' = [tcall EXCEPT ![w] =
               [pc |-> IF ~hit /\ creds THEN "request" ELSE "idle",
                fresh |-> valid,
                stale |-> fetched.done /\ ~valid,
                expect |-> fetched.value,
                ret |-> IF hit THEN spotTok ELSE IF creds THEN "pending" ELSE "",
                asked |-> ~hit /\ creds,
                ttl |-> 0]]
    /\ UNCHANGED <<pipeVars, en, fn, creds, spotTok, spotExp, now, fetched>>

\* The requests resolveSpotifyMetricsAndAlbum sends with token tok when the
\* provider answers o: none without a token, the album search only for an
\* artist that was found.
resolveSpotifyRequests(tok, o) ==
    IF tok = "" THEN <<>>
    ELSE IF o \in {"hit", "hit_no_album", "hit_bare"}
    THEN <<"artist_search", "album_search">>
    ELSE <<"artist_search">>

\* A failed request empties the cache.
TokFailClearsCache(w) ==
    /\ tcall[w].pc = "request"
    /\ tcall' = [tcall EXCEPT ![w].pc = "idle", ![w].ret = ""]
    /\ spotTok' = ""
    /\ UNCHANGED <<pipeVars, en, fn, creds, spotExp, now, fetched>>

\* httpClient.Do fails, the status is not 200, or the body has no access token.
TokFail(w) ==
    /\ tcall[w].pc = "request"
    /\ tcall' = [tcall EXCEPT ![w].pc = "idle", ![w].ret = ""]
    /\ UNCHANGED <<pipeVars, en, fn, creds, spotTok, spotExp, now, fetched>>

\* A 200 answer with an access token: spotTok = tok.AccessToken.
TokStore(w) ==
    /\ tcall[w].pc = "request"
    /\ \E t \in Tokens, ttl \in ExpiresIn :
        /\ spotTok' = t
        /\ fetched' = [fetched EXCEPT !.value = t, !.vttl = ttl]
        /\ tcall' = [tcall EXCEPT ![w].pc = "store_exp", ![w].ttl = ttl]
    /\ UNCHANGED <<pipeVars, en, fn, creds, spotExp, now>>

\* spotExp = ...; return spotTok
TokStoreExp(w) ==
    /\ tcall[w].pc = "store_exp"
    /\ spotExp' = TokenExpiry(now, tcall[w].ttl)
    /\ fetched' = [fetched EXCEPT !.done = TRUE, !.at = now, !.ttl = tcall[w].ttl]
    /\ tcall' = [tcall EXCEPT ![w].pc = "idle", ![w].ret = spotTok]
    /\ UNCHANGED <<pipeVars, en, fn, creds, spotTok, now>>

\* Largest clock value explored.
MaxTime == 3

Tick ==
    /\ now < MaxTime
    /\ now' = now + 1
    /\ UNCHANGED <<pipeVars, en, fn, creds, spotTok, spotExp, tcall, fetched>>

\* SPOTIFY_CLIENT_ID and SPOTIFY_CLIENT_SECRET are both set, or not.
TokenInit ==
    /\ PipeInit
    /\ enableWrite = FALSE
    /\ en = Idle
    /\ fn = NoCall
    /\ creds \in BOOLEAN
    /\ TokIdle

TokenNext ==
    \/ \E w \in WorkerIds : TokCheck(w)
    \/ \E w \in WorkerIds : TokFail(w)
    \/ \E w \in WorkerIds : TokStore(w)
    \/ \E w \in WorkerIds : TokStoreExp(w)
    \/ Tick

TokenSpec == TokenInit /\ [][TokenNext]_vars

-----------------------------------------------------------------------------
(* main from flag.Parse up to the first record; fn holds its progress      *)

EnvNames ==
    {"SPOTIFY_CLIENT_ID", "SPOTIFY_CLIENT_SECRET", "DISCOGS_TOKEN", "YOUTUBE_API_KEY"}

\* The names appended to missing; env is the set of variables that are set.
validateEnvVars(env) == EnvNames \ env

\* "" without a key, on a failed request and on an answer without items.
findYouTubePreview(key, o) ==
    IF key /\ o = "hit" THEN "youtube_watch_url" ELSE ""

\* if *inPath == "" { log.Fatal("missing -in flag") }
StartParseFlags ==
    /\ fn.op = "startup"
    /\ fn.pc = "flags"
    /\ fn' = [fn EXCEPT !.pc = IF fn.inPath THEN "env" ELSE "fatal_in"]
    /\ UNCHANGED <<pipeVars, en, tokVars>>

StartValidateEnv ==
    /\ fn.op = "startup"
    /\ fn.pc = "env"
    /\ fn' = [fn EXCEPT !.pc = IF validateEnvVars(fn.env) # {} THEN "fatal_env" ELSE "db"]
    /\ UNCHANGED <<pipeVars, en, tokVars>>

\* db.New is called in persist mode only.
StartConnect ==
    /\ fn.op = "startup"
    /\ fn.pc = "db"
    /\ fn' = [fn EXCEPT !.pc = IF fn.write /\ ~fn.dbUp THEN "fatal_db" ELSE "open"]
    /\ UNCHANGED <<pipeVars, en, tokVars>>

StartOpen ==
    /\ fn.op = "startup"
    /\ fn.pc = "open"
    /\ fn' = [fn EXCEPT !.pc = IF fn.readable THEN "run" ELSE "fatal_open"]
    /\ UNCHANGED <<pipeVars, en, tokVars>>

\* The preview-link step of the first record of the run.
StartPreview ==
    /\ fn.op = "startup"
    /\ fn.pc = "run"
    /\ \E o \in Outcomes :
        fn' = [fn EXCEPT !.pc = "previewed",
                         !.preview = findYouTubePreview("YOUTUBE_API_KEY" \in fn.env, o)]
    /\ UNCHANGED <<pipeVars, en, tokVars>>

StartInit ==
    /\ PipeInit
    /\ workers = 1
    /\ en = Idle
    /\ creds = TRUE
    /\ TokIdle
    /\ \E path, up, ok \in BOOLEAN, env \in SUBSET EnvNames :
        fn = [op |-> "startup", pc |-> "flags", inPath |-> path, env |-> env,
              write |-> enableWrite, dbUp |-> up, readable |-> ok,
              preview |-> "none"]

StartNext ==
    \/ StartParseFlags
    \/ StartValidateEnv
    \/ StartConnect
    \/ StartOpen
    \/ StartPreview

StartSpec == StartInit /\ [][StartNext]_vars

-----------------------------------------------------------------------------
(* The producer's read loop over one input source; fn holds its progress   *)

\* What r.Read() returns for one line of the input: a record that passes the
\* producer's validation, a record that does not, or csv.ErrFieldCount.
LineKinds == {"valid", "invalid", "fieldcount"}

\* How the input ends: io.EOF, or a read failure of the underlying file.
SourceEnds == {"eof", "ioerr"}

UpTo(S, n) == UNION {[1..k -> S] : k \in 0..n}

Sources == {[lines |-> l, end |-> e] : l \in UpTo(LineKinds, MaxRows), e \in SourceEnds}

\* The n-th call of r.Read().  Past the last line every call returns what
\* the source ends with: the reader keeps no error state of its own and asks
\* the file again on each call, so a failing file fails every call.
ReaderRead(src, n) == IF n <= Len(src.lines) THEN src.lines[n] ELSE src.end

\* The loop has no bound of its own; the model stops counting here.
MaxReads == MaxRows + 2

\* if err == io.EOF { close(csvRows); return }
ReadLoopEOF ==
    /\ fn.op = "producer"
    /\ ~fn.closed
    /\ fn.reads < MaxReads
    /\ ReaderRead(fn.src, fn.reads + 1) = "eof"
    /\ fn' = [fn EXCEPT !.reads = @ + 1, !.closed = TRUE]
    /\ UNCHANGED <<pipeVars, en, tokVars>>

\* if err != nil { atomic.AddInt64(&errorCount, 1); continue }
ReadLoopError ==
    /\ fn.op = "producer"
    /\ ~fn.closed
    /\ fn.reads < MaxReads
    /\ ReaderRead(fn.src, fn.reads + 1) \in {"fieldcount", "ioerr"}
    /\ fn' = [fn EXCEPT !.reads = @ + 1, !.errorCount = @ + 1]
    /\ UNCHANGED <<pipeVars, en, tokVars>>

\* rowNum++, then the record is skipped or enqueued.
ReadLoopRecord ==
    /\ fn.op = "producer"
    /\ ~fn.closed
    /\ fn.reads < MaxReads
    /\ LET ret == ReaderRead(fn.src, fn.reads + 1) IN
        /\ ret \in {"valid", "invalid"}
        /\ fn' = [fn EXCEPT !.reads = @ + 1,
                            !.rowNum = @ + 1,
                            !.skipCount = IF ret = "invalid" THEN @ + 1 ELSE @,
                            !.totalRows = IF ret = "valid" THEN @ + 1 ELSE @]
    /\ UNCHANGED <<pipeVars, en, tokVars>>

ReadInit ==
    /\ PipeInit
    /\ workers = 1
    /\ enableWrite = FALSE
    /\ en = Idle
    /\ creds = TRUE
    /\ TokIdle
    /\ \E src \in Sources :
        fn = [op |-> "producer", src |-> src, reads |-> 0, rowNum |-> 0,
              errorCount |-> 0, skipCount |-> 0, totalRows |-> 0, closed |-> FALSE]

ReadNext ==
    \/ ReadLoopEOF
    \/ ReadLoopError
    \/ ReadLoopRecord

ReadSpec == ReadInit /\ [][ReadNext]_vars

-----------------------------------------------------------------------------
(* Properties                                                              *)

\* The dates and the trimmed names that occur in input rows.
RowDates == {r.rec[1] : r \in ReadPool}

RowNames == UNION {{TrimSpace(r.rec[2]), TrimSpace(r.rec[3])} : r \in ReadPool}

\* releaseKey and norm tabulated over the rows' dates and names.
KeyTable == [d \in RowDates, a \in RowNames, b \in RowNames |-> releaseKey(d, a, b)]

NormOf == [s \in RowNames |-> norm(s)]

KeyOf(r) == KeyTable[r.dateISO, r.artist, r.album]

Done == mainPc = "done"

\* The worker that holds row r is about to send status st.
Pending(r, st) ==
    \E w \in WorkerIds : wrow[w] = r /\ wpc[w] = "send" /\ wres[w] = st

\* C1: among the records of a run that share a DedupKey at most one is
\* passed to enrichRelease, for every worker count and interleaving; every
\* other record with that key is reported as dupe_skip and causes neither an
\* enrichment nor a persistence call.
C1_AtMostOneEnrichedPerKey ==
    \A r \in sent :
        /\ calls[r.rowNum].enrich <= 1
        /\ \A q \in sent :
            (q # r /\ KeyOf(q) = KeyOf(r) /\ calls[q.rowNum].enrich > 0) =>
                /\ calls[r.rowNum].enrich = 0
                /\ calls[r.rowNum].exists = 0
                /\ calls[r.rowNum].insert = 0
                /\ ~\E w \in WorkerIds :
                        wrow[w] = r /\ wpc[w] \in {"enrich", "exists", "insert"}
                /\ outs[r.rowNum] \in {<<>>, <<"dupe_skip">>}
                /\ Done => outs[r.rowNum] = <<"dupe_skip">>

\* Two workers raced for one key: the row read later was enriched and the
\* row read first was reported as dupe_skip.
C1_Witness ==
    \E r \in sent, q \in sent :
        /\ r.rowNum < q.rowNum
        /\ KeyOf(q) = KeyOf(r)
        /\ calls[q.rowNum].enrich = 1
        /\ outs[r.rowNum] = <<"dupe_skip">>

\* Rows r and q are two spellings of one release: same date, same
\* normalized artist and album, and no third row of the run has their key.
SpellingsOfOneRelease(r, q) ==
    /\ r.rowNum # q.rowNum
    /\ r.dateISO = q.dateISO
    /\ NormOf[r.artist] = NormOf[q.artist]
    /\ NormOf[r.album] = NormOf[q.album]
    /\ \A x \in sent :
        (x.dateISO = r.dateISO /\ NormOf[x.artist] = NormOf[r.artist]
            /\ NormOf[x.album] = NormOf[r.album]) => x \in {r, q}

\* C2 as stated: two valid records that differ only by case/diacritics
\* yield, in every run mode, exactly one outcome that is success or error
\* and exactly one dupe_skip.
C2_OneSuccessOrErrorOneDupe ==
    Done =>
        \A r \in sent, q \in sent :
            SpellingsOfOneRelease(r, q) =>
                \/ /\ outs[r.rowNum] \in {<<"success">>, <<"error">>}
                   /\ outs[q.rowNum] = <<"dupe_skip">>
                \/ /\ outs[q.rowNum] \in {<<"success">>, <<"error">>}
                   /\ outs[r.rowNum] = <<"dupe_skip">>

FirstOutcomes == {<<"success">>, <<"error">>, <<"exists_skip">>}

\* C2 amended: of two valid records that differ only by case/diacritics,
\* one is reported as success, error or exists_skip (exists_skip and error
\* only in persist mode) and the other as dupe_skip; at no time have both
\* an outcome other than dupe_skip, or both dupe_skip.
C2_OneFirstOutcomeOneDupe ==
    \A r \in sent, q \in sent :
        SpellingsOfOneRelease(r, q) =>
            /\ Len(outs[r.rowNum]) <= 1
            /\ ~(outs[r.rowNum] \in FirstOutcomes /\ outs[q.rowNum] \in FirstOutcomes)
            /\ ~(outs[r.rowNum] = <<"dupe_skip">> /\ outs[q.rowNum] = <<"dupe_skip">>)
            /\ ~enableWrite => outs[r.rowNum] \in {<<>>, <<"success">>, <<"dupe_skip">>}
            /\ Done =>
                \/ outs[r.rowNum] \in FirstOutcomes /\ outs[q.rowNum] = <<"dupe_skip">>
                \/ outs[q.rowNum] \in FirstOutcomes /\ outs[r.rowNum] = <<"dupe_skip">>

\* A finished persist-mode run in which one spelling was found in the
\* catalog and the other spelling was a duplicate of it.
C2_Witness ==
    /\ Done
    /\ \E r \in sent, q \in sent :
        /\ SpellingsOfOneRelease(r, q)
        /\ r.artist # q.artist
        /\ outs[r.rowNum] = <<"exists_skip">>
        /\ outs[q.rowNum] = <<"dupe_skip">>

\* C3: every valid record pushed onto the queue is dequeued by exactly one
\* worker and produces exactly one outcome of {success, dupe_skip,
\* exists_skip, error} on the results channel; none is lost or reported
\* twice.  At every moment a row is in exactly one place (the queue, one
\* worker, or reported), and a finished run has reported every row once.
C3_EachRowThroughOnce ==
    /\ \A r \in sent :
        LET queued == Cardinality({i \in 1..Len(csvRows) : csvRows[i] = r})
            held == Cardinality({w \in WorkerIds : wrow[w] = r})
            reported == Len(outs[r.rowNum])
            inResults == Cardinality({i \in 1..Len(results) :
                                   results[i].rowNum = r.rowNum})
        IN  /\ queued + held + reported = 1
            /\ calls[r.rowNum].deq = held + reported
            /\ inResults <= reported
            /\ \A i \in 1..reported : outs[r.rowNum][i] \in Statuses
            /\ Done => reported = 1 /\ inResults = 0
    /\ \A i \in 1..Len(results) :
        /\ \E r \in sent : r.rowNum = results[i].rowNum
        /\ outs[results[i].rowNum] = <<results[i].status>>

\* A finished run of two workers that reported three rows.
C3_Witness ==
    /\ Done
    /\ workers = 2
    /\ Cardinality(sent) = 3
    /\ \A r \in sent : Len(outs[r.rowNum]) = 1

\* C4: when the run finishes, success + skipped + errors equals the number
\* of input lines read, the lines rejected by the producer included.
C4_TalliesEqualLinesRead ==
    Done => successCount + skipCount + errorCount = linesRead

\* A finished run whose input had a line of the wrong field count, a line
\* with a missing field or bad date, and a valid line.
C4_Witness ==
    /\ Done
    /\ rowNum < linesRead
    /\ Cardinality(sent) < rowNum
    /\ sent # {}

\* C5: every malformed or incomplete input record (field count other than
\* 4, empty date/artist/album, unparseable date) increments the skipped
\* counter by exactly one and no other counter and is never enqueued.  A
\* producer step that reads a record and has no row to send has rejected it.
C5_MalformedCountsAsSkipped ==
    [][(linesRead' = linesRead + 1 /\ prodPc' = "read") =>
            /\ skipCount' = skipCount + 1
            /\ errorCount' = errorCount
            /\ successCount' = successCount
            /\ totalRows' = totalRows
            /\ csvRows' = csvRows]_vars

\* C6: with writing disabled no existence check and no insert is ever made,
\* every record whose key was newly claimed is reported as success, and a
\* finished run has as many successes as it read distinct keys (3 for 3
\* well-formed mutually distinct rows).
C6_PreviewNeverPersists ==
    ~enableWrite =>
        /\ catalog = {}
        /\ \A w \in WorkerIds : wpc[w] \notin {"exists", "insert"}
        /\ \A n \in Rows : calls[n].exists = 0 /\ calls[n].insert = 0
        /\ \A r \in sent :
            calls[r.rowNum].enrich > 0 =>
                /\ outs[r.rowNum] \in {<<>>, <<"success">>}
                /\ \A st \in Statuses \ {"success"} : ~Pending(r, st)
                /\ Done => outs[r.rowNum] = <<"success">>
        /\ Done => successCount = Cardinality({KeyOf(r) : r \in sent})

\* A finished preview run of three mutually distinct rows.
C6_Witness ==
    /\ ~enableWrite
    /\ Done
    /\ Cardinality({KeyOf(r) : r \in sent}) = 3
    /\ successCount = 3

Attempted(e) == {e.trace[i] : i \in 1..Len(e.trace)}

\* The steps enrichRelease calls whatever the earlier steps found.
UnconditionalSteps ==
    {"spotify", "youtube", "ma_genres", "discogs_styles", "genre_merge",
     "label_info", "score"}

\* C7: whatever combination of provider failures (network failure, non-2xx
\* status, malformed body) occurs, enrichRelease never ends in a panic, the
\* fields of a failed step stay absent, and a call that has returned has
\* attempted every later step.
C7_ProviderFailureIsAbsorbed ==
    /\ en.pc # "panicked"
    /\ "spotify" \in en.failed => en.followers = 0 /\ en.albumURL = "" /\ en.cover = ""
    /\ "youtube" \in en.failed => en.youtube = ""
    /\ "ma_genres" \in en.failed => en.ma = <<>>
    /\ "discogs_styles" \in en.failed => en.dc = <<>>
    /\ "ma_country" \in en.failed => "metal_archives_country" \notin en.sources
    /\ "mb_country" \in en.failed => "musicbrainz_country" \notin en.sources
    /\ "discogs_country" \in en.failed => "discogs_country" \notin en.sources
    /\ "label_info" \in en.failed => en.labelURL = "" /\ en.labelDiscogsURL = ""
    /\ en.pc = "returned" => UnconditionalSteps \subseteq Attempted(en)

\* C8: in persist mode a failed existence check or insert yields exactly one
\* error outcome for its record (after a failed existence check no insert
\* is called), and the other records of the run still get their outcomes.
C8_PersistenceFailureIsLocal ==
    \A r \in sent :
        LET c == calls[r.rowNum] IN
        /\ c.existsErr > 0 => c.insert = 0
        /\ c.existsErr + c.insertErr > 0 =>
            \/ outs[r.rowNum] = <<"error">>
            \/ outs[r.rowNum] = <<>> /\ Pending(r, "error")
        /\ Done => Len(outs[r.rowNum]) = 1

\* A finished run in which one record's existence check failed, another
\* record's insert failed and a third record was inserted.
C8_Witness ==
    /\ Done
    /\ \E r \in sent, q \in sent, x \in sent :
        /\ calls[r.rowNum].existsErr = 1
        /\ calls[q.rowNum].insertErr = 1
        /\ outs[r.rowNum] = <<"error">>
        /\ outs[q.rowNum] = <<"error">>
        /\ calls[x.rowNum].insert = 1
        /\ outs[x.rowNum] = <<"success">>

\* C9: every run terminates: the producer closes the queue, the workers
\* drain it and exit, results is closed only after every worker has exited,
\* the summary follows the last tally, and no reachable state is stuck
\* short of the summary.
C9_RunsToSummary ==
    /\ resultsClosed => \A w \in 1..workers : wpc[w] = "exited"
    /\ (\E w \in 1..workers : wpc[w] = "exited") => csvClosed /\ csvRows = <<>>
    /\ Done => resultsClosed /\ results = <<>> /\ prodPc = "done"
    /\ Done \/ ENABLED Next

\* Step a is never invoked after step b in the call so far.
Precedes(a, b) ==
    \A i \in 1..Len(en.trace), j \in 1..Len(en.trace) :
        (en.trace[i] = a /\ en.trace[j] = b) => i < j

\* C10 as stated: within one record the steps are invoked in the order
\* a..i of the design text: primary metrics, label backfill, preview link,
\* registry genres, the three country sources, secondary genre tags, label
\* identity/website, genre merge, score.
C10_OrderAsListed ==
    \A i \in 1..Len(en.trace), j \in 1..Len(en.trace) :
        i < j => StepIndex(enrichOrderAsListed, en.trace[i])
                    < StepIndex(enrichOrderAsListed, en.trace[j])

\* C10 amended: within one record the steps are invoked one after another
\* in the order primary metrics, label backfill, preview link, registry
\* genres, registry country, secondary genre tags, music-graph country,
\* secondary-catalog country, genre merge, label identity/website, score;
\* no step is invoked twice, and a call that has returned has invoked every
\* unconditional step.
C10_OrderOfCalls ==
    /\ Precedes("spotify", "spotify_label")
    /\ Precedes("spotify_label", "youtube")
    /\ Precedes("youtube", "ma_genres")
    /\ Precedes("ma_genres", "ma_country")
    /\ Precedes("ma_country", "discogs_styles")
    /\ Precedes("discogs_styles", "mb_country")
    /\ Precedes("mb_country", "discogs_country")
    /\ Precedes("discogs_country", "genre_merge")
    /\ Precedes("genre_merge", "label_info")
    /\ Precedes("label_info", "score")
    /\ Precedes("spotify", "youtube") /\ Precedes("ma_genres", "discogs_styles")
    /\ Precedes("discogs_styles", "genre_merge")
    /\ Cardinality(Attempted(en)) = Len(en.trace)
    /\ en.pc = "returned" => UnconditionalSteps \subseteq Attempted(en)

\* A call that invoked all eleven steps and returned.
C10_Witness == en.pc = "returned" /\ Len(en.trace) = 11

CountryTags == {"metal_archives_country", "musicbrainz_country", "discogs_country"}

\* C11: the country is the value of the first source, in the order registry,
\* music-graph service, secondary catalog, that returned a non-empty value,
\* and is absent iff none did; after a source has returned a country no
\* later country source is queried and the value is not overwritten.
C11_CountryFromFirstSource ==
    /\ en.country = "SE" <=> "metal_archives_country" \in en.sources
    /\ en.country = "NO" <=> "musicbrainz_country" \in en.sources
    /\ en.country = "FI" <=> "discogs_country" \in en.sources
    /\ en.country = "" <=> en.sources \cap CountryTags = {}
    /\ "metal_archives_country" \in en.sources =>
            {"mb_country", "discogs_country"} \cap Attempted(en) = {}
    /\ "musicbrainz_country" \in en.sources =>
            /\ "ma_country" \in Attempted(en)
            /\ "discogs_country" \notin Attempted(en)
    /\ "discogs_country" \in en.sources =>
            {"ma_country", "mb_country"} \subseteq Attempted(en)
    /\ (en.pc = "returned" /\ en.country = "") =>
            {"ma_country", "mb_country", "discogs_country"} \subseteq Attempted(en)

\* A call in which the registry and the music-graph service returned nothing
\* and the secondary catalog returned the country.
C11_Witness ==
    /\ en.pc = "returned"
    /\ en.country = "FI"
    /\ {"ma_country", "mb_country", "discogs_country"} \subseteq Attempted(en)

\* The genre names of a list, lowercased and trimmed, without the empty ones.
Lowered(list) ==
    LET low == [i \in 1..Len(list) |-> LowerStr(list[i])]
        NonEmpty(x) == x # ""
    IN  SelectSeq(low, NonEmpty)

FirstIndex(list, x) == CHOOSE i \in 1..Len(list) : list[i] = x /\ \A j \in 1..(i - 1) : list[j] # x

\* C12: the merged genre list is the union of the registry, secondary and
\* primary lists in that priority: every entry is lowercased, no two
\* entries are equal ignoring case, the entries are exactly the names of
\* the three lists, and they stand in first-seen order; registry ["Death
\* Metal"], secondary ["death metal","Doom"], primary ["black metal"] merge
\* to ["death metal","doom","black metal"].
C12_GenresMergedInPriority ==
    fn.op = "merge" =>
        LET all == Lowered(SelectSeq(fn.registry, NotMASeparator))
                      \o Lowered(fn.secondary) \o Lowered(fn.primary)
            out == fn.out
        IN  /\ \A i \in 1..Len(out) : LowerStr(out[i]) = out[i]
            /\ \A i \in 1..Len(out), j \in 1..Len(out) :
                    i # j => LowerStr(out[i]) # LowerStr(out[j])
            /\ {out[i] : i \in 1..Len(out)} = {all[i] : i \in 1..Len(all)}
            /\ \A i \in 1..Len(out), j \in 1..Len(out) :
                    i < j => FirstIndex(all, out[i]) < FirstIndex(all, out[j])
            /\ (fn.registry = <<"Death Metal">>
                    /\ fn.secondary = <<"death metal", "Doom">>
                    /\ fn.primary = <<"black metal">>)
                => out = <<"death metal", "doom", "black metal">>

\* The merge of the example lists.
C12_Witness ==
    /\ fn.op = "merge"
    /\ fn.registry = <<"Death Metal">>
    /\ fn.secondary = <<"death metal", "Doom">>
    /\ fn.primary = <<"black metal">>
    /\ fn.out = <<"death metal", "doom", "black metal">>

Max(a, b) == IF a >= b THEN a ELSE b

Min(a, b) == IF a <= b THEN a ELSE b

\* floor(ln(1 + followers)) of the call in fn, as a real number.
ExactFloorLn1p ==
    IF fn.wide
    THEN CASE fn.followers = "214643579785915" -> 32
           [] fn.followers = "4311231547115194" -> 35
           [] fn.followers = "9223372036854775807" -> 43
    ELSE Cardinality({k \in 1..Len(ExpCeil) : fn.followers >= ExpCeil[k] - 1})

\* C13: for every follower count >= 0 representable as int64 and every
\* popularity, computeScore(followers, popularity) =
\* max(popularity, min(100, floor(ln(1 + followers)))).
C13_ScoreIsMaxOfPopularityAndLog ==
    fn.op = "computeScore" =>
        fn.out = Max(fn.popularity, Min(100, ExactFloorLn1p))

\* C14: the score lies in [0,100] for every follower count and every
\* popularity, popularity values above 100 or below 0 included.
C14_ScoreWithinZeroAndHundred ==
    fn.op = "computeScore" => fn.out >= 0 /\ fn.out <= 100

\* C15 as stated: computeScore(0, 50) = 50 and computeScore(22025, 5) = 10.
C15_ScoreExamples ==
    (fn.op = "computeScore" /\ ~fn.wide) =>
        /\ (fn.followers = 0 /\ fn.popularity = 50) => fn.out = 50
        /\ (fn.followers = 22025 /\ fn.popularity = 5) => fn.out = 10

\* C15 amended: computeScore(0, 50) = 50, computeScore(22025, 5) = 9 (the
\* floor of ln(22026) being 9) and computeScore(22026, 5) = 10.
C15_ScoreExamplesAmended ==
    (fn.op = "computeScore" /\ ~fn.wide) =>
        /\ (fn.followers = 0 /\ fn.popularity = 50) => fn.out = 50
        /\ (fn.followers = 22025 /\ fn.popularity = 5) => fn.out = 9
        /\ (fn.followers = 22026 /\ fn.popularity = 5) => fn.out = 10

\* The call computeScore(22025, 5) returned 9.
C15_Witness ==
    /\ fn.op = "computeScore"
    /\ ~fn.wide
    /\ fn.followers = 22025
    /\ fn.popularity = 5
    /\ fn.out = 9

\* C16: norm is idempotent: norm(norm(x)) = norm(x) for every input x, a
\* repeated leading "the " or a dropped character in front of "the " included.
C16_NormIdempotent ==
    fn.op = "norm" => fn.again = fn.out

\* C17: norm("Cruxshadows" with u-umlaut) = norm("cruxshadows"), and for every
\* name X, norm("The " + X) = norm(X).
C17_NormFoldsAndStripsThe ==
    fn.op = "norm" =>
        /\ fn.in = <<"C", "r", "u_uml", "x", "s", "h", "a", "d", "o", "w", "s">> =>
               fn.out = norm(<<"c", "r", "u", "x", "s", "h", "a", "d", "o", "w", "s">>)
        /\ fn.withThe = fn.out

NotOnLabel == <<"#", "N", "o", "t", "_", "O", "n", "_", "L", "a", "b", "e", "l">>

FacebookX == <<"f", "a", "c", "e", "b", "o", "o", "k", ".", "c", "o", "m", "/", "x">>

LabelExample ==
    Http \o <<"l", "a", "b", "e", "l", ".", "e", "x", "a", "m", "p", "l", "e", ".", "c", "o", "m", "/">>

\* C18: pickOfficialWebsite returns absent whenever any entry of the list
\* contains the "not on label" marker, whatever the other entries are and
\* wherever the marked entry stands; and for ["facebook.com/x",
\* "http://label.example.com/"] it returns "http://label.example.com/".
C18_MarkerMakesAbsent ==
    fn.op = "pickOfficialWebsite" =>
        /\ (\E k \in 1..Len(fn.in) : Contains(fn.in[k], NotOnLabel)) => fn.out = <<>>
        /\ fn.in = <<FacebookX, LabelExample>> => fn.out = LabelExample

\* A list whose second entry is marked and whose first entry alone would give
\* a website: the result is absent.
C18_Witness ==
    /\ fn.op = "pickOfficialWebsite"
    /\ Len(fn.in) = 2
    /\ pickOfficialWebsite(<<fn.in[1]>>) # <<>>
    /\ Contains(fn.in[2], NotOnLabel)
    /\ fn.out = <<>>

\* The URL u is on a known social/media host: its host is one of the listed
\* names or a subdomain of one.
SocialHost(u) ==
    LET host == ToLower(Before(SubSeq(u, ProtocolAt(u, 1) + 1, Len(u)), {"/", "?", "#"}))
        names == {<<"f", "a", "c", "e", "b", "o", "o", "k", ".", "c", "o", "m">>,
                  <<"i", "n", "s", "t", "a", "g", "r", "a", "m", ".", "c", "o", "m">>,
                  <<"t", "w", "i", "t", "t", "e", "r", ".", "c", "o", "m">>,
                  <<"x", ".", "c", "o", "m">>,
                  <<"b", "a", "n", "d", "c", "a", "m", "p", ".", "c", "o", "m">>,
                  <<"s", "o", "u", "n", "d", "c", "l", "o", "u", "d", ".", "c", "o", "m">>,
                  <<"y", "o", "u", "t", "u", "b", "e", ".", "c", "o", "m">>,
                  <<"t", "i", "k", "t", "o", "k", ".", "c", "o", "m">>,
                  <<"l", "i", "n", "k", "t", "r", ".", "e", "e">>}
        EndsWith(h, n) == Len(h) >= Len(n) /\ SubSeq(h, Len(h) - Len(n) + 1, Len(h)) = n
    IN  /\ ProtocolAt(u, 1) > 0
        /\ \E n \in names : host = n \/ EndsWith(host, <<".">> \o n)

\* The URLs extracted from the list of the call in fn.
Extracted == {fn.cands[k] : k \in 1..Len(fn.cands)}

\* C19 as stated: the result is never a URL on a known social/media host, and
\* it is absent when every extracted URL is on such a host.
C19_NeverSocial ==
    fn.op = "pickOfficialWebsite" =>
        /\ ~SocialHost(fn.out)
        /\ (\A u \in Extracted : SocialHost(u)) => fn.out = <<>>

\* C19 amended: URLs that contain the name of a known social/media host are
\* passed over and the shortest remaining URL that normalizes is returned,
\* ties broken lexicographically; when none remains the shortest extracted
\* URL is returned all the same, so the result is on a social/media host only
\* in that fallback.
C19_SocialOnlyAsFallback ==
    (fn.op = "pickOfficialWebsite" /\ ~HasMarker(fn.in)) =>
        LET usable == {u \in Extracted : ~isBad(u) /\ normalizeURL(u) # <<>>}
            shortest(S) == CHOOSE u \in S : \A v \in S \ {u} : LessURL(u, v)
        IN  /\ SocialHost(fn.out) => usable = {}
            /\ usable # {} => fn.out = normalizeURL(shortest(usable))
            /\ (usable = {} /\ Extracted # {}) =>
                   fn.out = normalizeURL(shortest(Extracted))
            /\ Extracted = {} => fn.out = <<>>

\* The list ["facebook.com/x"]: the only extracted URL is on a social host and
\* is returned.
C19_Witness ==
    /\ fn.op = "pickOfficialWebsite"
    /\ fn.in = <<FacebookX>>
    /\ fn.cands = <<Http \o FacebookX>>
    /\ fn.out = Http \o FacebookX

\* C20: once a token has been fetched, every later call made before the
\* cached expiry (fetch time + expires_in - 60 seconds) returns the cached
\* value without a token request; a call at or after the cached expiry issues
\* a new token request.
C20_CachedTokenReusedUntilExpiry ==
    \A w \in WorkerIds :
        /\ tcall[w].fresh => (~tcall[w].asked /\ tcall[w].ret = tcall[w].expect)
        /\ tcall[w].stale => tcall[w].asked

\* One worker has been handed the cached token without a request, another
\* found the cache expired and is waiting for the answer to its request.
C20_Witness ==
    \E w, v \in WorkerIds :
        /\ tcall[w].fresh
        /\ tcall[w].ret \in Tokens
        /\ ~tcall[w].asked
        /\ tcall[v].stale
        /\ tcall[v].pc = "request"

\* C21: with two or more workers at most one token request is issued per
\* validity window of the cached token: two workers never both have a token
\* request under way while no valid token is cached.
C21_NoRedundantTokenRequest ==
    \A w, v \in WorkerIds :
        (tcall[w].pc = "request" /\ tcall[v].pc = "request") => w = v

\* Startup has ended, in a fatal exit or with the first record under way.
StartSettled ==
    fn.op = "startup" /\ fn.pc \in {"fatal_in", "fatal_env", "fatal_db", "fatal_open", "previewed"}

\* C22: with the primary provider's credential pair set and the video-provider
\* key unset the run starts and the preview-link step yields an absent value;
\* startup is aborted only for a missing input path, missing required
\* credentials (the primary provider's pair), or an unreadable input source.
C22_VideoKeyOptional ==
    StartSettled =>
        /\ (/\ fn.inPath
            /\ fn.readable
            /\ fn.env = EnvNames \ {"YOUTUBE_API_KEY"}
            /\ ~fn.write)
               => (fn.pc = "previewed" /\ fn.preview = "")
        /\ fn.pc # "previewed" =>
               \/ ~fn.inPath
               \/ ~fn.readable
               \/ ~({"SPOTIFY_CLIENT_ID", "SPOTIFY_CLIENT_SECRET"} \subseteq fn.env)

\* C23: in persist mode insert is called for a record iff its key was newly
\* claimed and the existence check returned false without error; the
\* record's outcome is exists_skip iff the existence check returned true,
\* success iff the insert succeeded, and error iff the existence check or the
\* insert failed.
C23_PersistOutcomes ==
    enableWrite =>
        \A r \in sent :
            LET c == calls[r.rowNum]
                absentNoError == c.exists = 1 /\ c.existsErr = 0 /\ c.existsFound = 0
                inserting == \E w \in WorkerIds : wrow[w] = r /\ wpc[w] = "insert"
                Outcome(st) == outs[r.rowNum] = <<st>> \/ Pending(r, st)
            IN  /\ c.insert > 0 => (c.insert = 1 /\ c.enrich = 1 /\ absentNoError)
                /\ (c.enrich = 1 /\ absentNoError) => (c.insert = 1 \/ inserting)
                /\ Outcome("exists_skip") <=> c.existsFound = 1
                /\ Outcome("success") <=> (c.insert = 1 /\ c.insertErr = 0)
                /\ Outcome("error") <=> c.existsErr + c.insertErr > 0

\* A finished persist run with one record of each kind: found in the catalog,
\* inserted, and failed.
C23_Witness ==
    /\ enableWrite
    /\ Done
    /\ \E r \in sent, q \in sent, x \in sent :
        /\ calls[r.rowNum].existsFound = 1 /\ outs[r.rowNum] = <<"exists_skip">>
        /\ calls[q.rowNum].insert = 1 /\ outs[q.rowNum] = <<"success">>
        /\ calls[x.rowNum].existsErr + calls[x.rowNum].insertErr = 1
        /\ outs[x.rowNum] = <<"error">>

\* C24: exactly max(1, configured worker count) workers are started, and in
\* every reachable state the record queue holds at most twice that number of
\* records: while the queue is full the producer cannot enqueue a further
\* record, and it can again once a worker has dequeued one.
C24_QueueBoundedByTwiceWorkers ==
    LET started == {w \in WorkerIds : wpc[w] # "off"}
        holding == Running /\ prodPc = "send"
    IN  /\ workers >= 1
        /\ started = 1..workers
        /\ Len(csvRows) <= 2 * workers
        /\ (holding /\ Len(csvRows) = 2 * workers) => ~ENABLED ProducerSend
        /\ (holding /\ Len(csvRows) < 2 * workers) => ENABLED ProducerSend

\* The queue of a single worker is full with two records and the producer
\* holds a third.
C24_Witness ==
    /\ workers = 1
    /\ Len(csvRows) = 2
    /\ prodPc = "send"
    /\ prodRow # NoRow
    /\ Running

\* C25: a non-blank label is never changed by a step of enrichment; the
\* label is filled from the primary provider's album detail only if it is
\* blank and an album was resolved, and from the secondary catalog only if it
\* is still blank after that.
C25_LabelNeverOverwritten ==
    [][/\ en.label # "" => en'.label = en.label
       /\ (en'.label # en.label /\ en'.label = "label_from_spotify") =>
              (en.albumID # "" /\ en.pc = "spotify_label")
       /\ (en'.label # en.label /\ en'.label = "label_from_discogs") =>
              en.pc = "label_info"
       /\ en'.label \in {en.label, "label_from_spotify", "label_from_discogs"}]_vars

\* A call given a label has returned with that label although an album was
\* resolved and the secondary catalog knew a label name.
C25_Witness ==
    /\ en.pc = "returned"
    /\ en.label = "label_from_csv"
    /\ en.albumID # ""
    /\ en.labelDiscogsURL # ""
    /\ Attempted(en) \cap {"spotify_label"} = {}

\* C26: resolveLabelInfo performs the label-name search only if the
\* release-based lookup yielded neither a registry link nor a website; the
\* query is the label hint when it is non-blank and artist + " " + album
\* otherwise; when the release-based lookup yields a link or a website its
\* results are returned and the search is never issued.
C26_LabelSearchOnlyAsFallback ==
    (fn.op = "resolveLabelInfo" /\ fn.tok) =>
        LET nothing == fn.rel.dlink = "" /\ fn.rel.site = ""
            blank == \A k \in 1..Len(fn.hint) : fn.hint[k] = " "
        IN  /\ fn.call.searched <=> nothing
            /\ fn.call.searched =>
                   /\ fn.call.query = IF blank THEN fn.artist \o <<" ">> \o fn.album
                                      ELSE fn.hint
                   /\ fn.call.out = fn.srch
            /\ ~nothing =>
                   /\ fn.call.out.dlink = fn.rel.dlink
                   /\ fn.call.out.site = fn.rel.site
                   /\ fn.rel.name # <<>> => fn.call.out.name = fn.rel.name

\* The release-based lookup gave a website but no link, the search would have
\* given a link: the website is returned and no search was issued.
C26_Witness ==
    /\ fn.op = "resolveLabelInfo"
    /\ fn.tok
    /\ fn.rel.dlink = ""
    /\ fn.rel.site # ""
    /\ fn.srch.dlink # ""
    /\ ~fn.call.searched
    /\ fn.call.out.dlink = ""
    /\ fn.call.out.site = fn.rel.site

\* The requests the call in fn has made.
MATried == {fn.call.trace[k] : k \in 1..Len(fn.call.trace)}

\* C27 as stated: exact-name search, then partial-match search, then HTML
\* scraping, the first non-empty genre list being returned; the HTML scraping
\* is attempted only when the structured endpoint failed.
C27_HTMLOnlyAfterFailure ==
    fn.op = "lookupMetalArchivesBandGenres" =>
        /\ "html" \in MATried => (fn.exact = "fail" \/ fn.partial = "fail")
        /\ fn.exact = "hit" => fn.call.trace = <<"exact">>

\* C27 amended: the HTML scraping is attempted whenever neither structured
\* search yielded a non-empty genre list, whether the endpoint failed or
\* answered without a usable match.
C27_FirstNonEmptyOfThree ==
    fn.op = "lookupMetalArchivesBandGenres" =>
        /\ fn.call.trace \in {<<"exact">>, <<"exact", "partial">>,
                              <<"exact", "partial", "html">>}
        /\ "partial" \in MATried <=> fn.exact # "hit"
        /\ "html" \in MATried <=> (fn.exact # "hit" /\ fn.partial # "hit")
        /\ fn.call.out # <<>> <=> "hit" \in {fn.exact, fn.partial, fn.html}
        /\ fn.exact = "hit" => fn.call.out = <<"death metal">>
        /\ (fn.exact # "hit" /\ fn.partial = "hit") => fn.call.out = <<"doom">>

\* Both structured searches answered without a usable match, and the genres
\* come from the scraped page.
C27_Witness ==
    /\ fn.op = "lookupMetalArchivesBandGenres"
    /\ fn.exact = "empty"
    /\ fn.partial = "empty"
    /\ fn.html = "hit"
    /\ "html" \in MATried
    /\ fn.call.out = <<"death metal">>

\* Candidate i of the call in fn has the normalized name of the query.
NameEqual(i) == norm(fn.names[i]) = norm(fn.artist)

\* The normalized name of candidate i contains every whitespace-delimited
\* token of the normalized query.
NameHasTokens(i) ==
    LET want == norm(fn.artist)
        name == norm(fn.names[i])
        cuts == {0, Len(want) + 1} \cup {k \in 1..Len(want) : want[k] = " "}
        tokens == {SubSeq(want, a + 1, b - 1) : <<a, b>> \in
                      {p \in cuts \X cuts :
                          p[1] < p[2] /\ \A c \in cuts : ~(p[1] < c /\ c < p[2])}}
    IN  \A t \in tokens :
            \E k \in 1..(Len(name) - Len(t) + 1) : SubSeq(name, k, k + Len(t) - 1) = t

\* C28: if any candidate's normalized name equals the normalized query, the
\* first such candidate is selected even when a token-subset candidate is
\* listed before it; otherwise the first candidate in listing order whose
\* normalized name contains every token of the normalized query is selected;
\* otherwise no candidate is selected.
C28_ExactThenFirstTokenMatch ==
    fn.op = "bestCandidate" =>
        LET idx == 1..Len(fn.names)
        IN  /\ (\E i \in idx : NameEqual(i)) =>
                   /\ fn.best \in idx
                   /\ NameEqual(fn.best)
                   /\ \A j \in 1..(fn.best - 1) : ~NameEqual(j)
            /\ ((\A i \in idx : ~NameEqual(i)) /\ (\E i \in idx : NameHasTokens(i))) =>
                   /\ fn.best \in idx
                   /\ NameHasTokens(fn.best)
                   /\ \A j \in 1..(fn.best - 1) : ~NameHasTokens(j)
            /\ (\A i \in idx : ~NameEqual(i) /\ ~NameHasTokens(i)) => fn.best = 0

\* A token match is listed first and an equal name third: the third is chosen.
C28_Witness ==
    /\ fn.op = "bestCandidate"
    /\ Len(fn.names) = 3
    /\ NameHasTokens(1)
    /\ ~NameEqual(1)
    /\ ~NameEqual(2)
    /\ NameEqual(3)
    /\ fn.best = 3

IdentOf(r) == CatalogIdent(r.artist, r.album, r.dateISO)

\* C30: in a persist-mode run with no other writer, for any worker count and
\* interleaving, the run never inserts two releases that the existence check
\* treats as the same (equal case-insensitive artist and title, equal date),
\* although the existence check and the insert are not atomic.
C30_NoDoubleInsert ==
    enableWrite =>
        /\ \A r \in sent, q \in sent :
            (r # q /\ IdentOf(r) = IdentOf(q)) =>
                calls[r.rowNum].insert + calls[q.rowNum].insert <= 1
        /\ \A r \in sent :
            calls[r.rowNum].insert > 0 => IdentOf(r) \notin UNION InitialCatalogs

\* Two workers have finished a run with two rows of the same release: one was
\* inserted, the other was reported as a duplicate.
C30_Witness ==
    /\ enableWrite
    /\ workers = 2
    /\ Done
    /\ \E r \in sent, q \in sent :
        /\ r # q
        /\ IdentOf(r) = IdentOf(q)
        /\ calls[r.rowNum].insert = 1
        /\ outs[r.rowNum] = <<"success">>
        /\ outs[q.rowNum] = <<"dupe_skip">>

\* Row r went past the dedup test: it claimed its key.
Claimed(r) ==
    \/ calls[r.rowNum].enrich > 0
    \/ \E w \in WorkerIds : wrow[w] = r /\ wpc[w] = "enrich"

\* The rows enqueued before r that share its DedupKey.
EarlierSameKey(r) ==
    {q \in sent : q.rowNum < r.rowNum /\ KeyOf(q) = KeyOf(r)}

\* Outcomes were emitted in input-row order so far: no row has an outcome
\* while a row enqueued before it has none, and the results channel holds
\* its outcomes by increasing row number.
EmittedInRowOrder ==
    /\ \A r \in sent, q \in sent :
        (q.rowNum < r.rowNum /\ outs[r.rowNum] # <<>>) => outs[q.rowNum] # <<>>
    /\ \A i \in 1..Len(results), j \in 1..Len(results) :
        i < j => results[i].rowNum < results[j].rowNum

\* C31 as stated: among records sharing a DedupKey, the one that is enriched
\* is the one with the smallest row number, for every worker count and
\* interleaving; with one worker outcomes are emitted in input-row order.
C31_FirstOccurrenceEnriched ==
    /\ \A r \in sent : Claimed(r) => EarlierSameKey(r) = {}
    /\ workers = 1 => EmittedInRowOrder

\* C31 amended: among records sharing a DedupKey, the one that is enriched
\* has fewer than N records of that key before it in the input, N being the
\* worker count, so with N = 1 it is the first occurrence; with N = 1
\* outcomes are moreover emitted in input-row order.
C31_FewerThanWorkersBefore ==
    /\ \A r \in sent : Claimed(r) => Cardinality(EarlierSameKey(r)) < workers
    /\ workers = 1 => EmittedInRowOrder

\* One worker has finished a run in which the second and third record
\* repeated the key of the first: the first was enriched, the others not.
C31_Witness ==
    /\ workers = 1
    /\ Done
    /\ \E r \in sent :
        /\ calls[r.rowNum].enrich = 1
        /\ Cardinality({q \in sent : KeyOf(q) = KeyOf(r)}) = 3
        /\ \A q \in sent : q # r => outs[q.rowNum] = <<"dupe_skip">>

\* The rows of the run, r included, that share the DedupKey of r.
SameKey(r) == {q \in sent : KeyOf(q) = KeyOf(r)}

\* C32: a DedupKey stays claimed for the rest of the run once a worker has
\* claimed it, also when that worker's record ends in an error outcome
\* (existence check or insert failed): every other record with the key is
\* dupe_skipped and never enriched or inserted, and no insert for the key
\* succeeds, so the run leaves the catalog without the release unless it
\* held it from the start.
C32_KeyStaysClaimedAfterError ==
    \A r \in sent :
        /\ Claimed(r) => KeyOf(r) \in seen
        /\ (Pending(r, "error") \/ outs[r.rowNum] = <<"error">>) =>
            /\ KeyOf(r) \in seen
            /\ \A q \in SameKey(r) \ {r} :
                /\ calls[q.rowNum].enrich = 0
                /\ calls[q.rowNum].exists = 0
                /\ calls[q.rowNum].insert = 0
                /\ ~Claimed(q)
                /\ outs[q.rowNum] \in {<<>>, <<"dupe_skip">>}
                /\ Done => outs[q.rowNum] = <<"dupe_skip">>
            /\ \A q \in SameKey(r) : calls[q.rowNum].insert = calls[q.rowNum].insertErr
            /\ IdentOf(r) \in catalog => IdentOf(r) \in UNION InitialCatalogs

\* A finished persist-mode run: the insert of a record failed, a later
\* record with its key was reported as a duplicate, and the release is not
\* in the catalog.
C32_Witness ==
    /\ enableWrite
    /\ Done
    /\ \E r \in sent, q \in sent :
        /\ r.rowNum < q.rowNum
        /\ KeyOf(q) = KeyOf(r)
        /\ calls[r.rowNum].insertErr = 1
        /\ outs[r.rowNum] = <<"error">>
        /\ outs[q.rowNum] = <<"dupe_skip">>
        /\ calls[q.rowNum].enrich = 0
        /\ IdentOf(r) \notin catalog
        /\ IdentOf(q) \notin catalog

\* The lines the producer itself counted as skipped (a row number was given
\* and nothing was enqueued) and as errors (r.Read() failed).
ProducerSkips == rowNum - Cardinality(sent)
ProducerErrors == linesRead - rowNum

Reported(st) == Cardinality({r \in sent : outs[r.rowNum] = <<st>>})

\* C33: the results channel is closed only after every worker has exited,
\* so no worker sends on a closed results channel; and the summary is
\* computed only after the producer has finished, so its counters include
\* every skip and error counted by the producer besides the tallied outcomes.
C33_CloseAfterWorkersSummaryAfterProducer ==
    /\ resultsClosed => \A w \in 1..workers : wpc[w] = "exited"
    /\ \A w \in WorkerIds : wpc[w] = "send" => ~resultsClosed
    /\ Done =>
        /\ prodPc = "done"
        /\ prodRow = NoRow
        /\ skipCount = ProducerSkips + Reported("dupe_skip") + Reported("exists_skip")
        /\ errorCount = ProducerErrors + Reported("error")
        /\ successCount = Reported("success")

\* A finished run of two workers whose summary counts a line the producer
\* skipped, a line it could not read, and an outcome of a worker.
C33_Witness ==
    /\ Done
    /\ workers = 2
    /\ ProducerSkips = 1
    /\ ProducerErrors = 1
    /\ skipCount = 1
    /\ errorCount = 1
    /\ successCount = 1

\* The read failures of a source: its lines of the wrong field count, and
\* the failure of the file it ends with, if any.
SourceFailures(src) ==
    Cardinality({i \in 1..Len(src.lines) : src.lines[i] = "fieldcount"})
        + (IF src.end = "ioerr" THEN 1 ELSE 0)

\* C34: for every input source, one that keeps returning a non-EOF read
\* error included, the producer stops reading after finitely many reads (at
\* most one call of r.Read() past the lines of the input) and counts each
\* read failure once.
C34_ProducerStopsReading ==
    fn.op = "producer" =>
        /\ fn.reads <= Len(fn.src.lines) + 1
        /\ fn.errorCount <= SourceFailures(fn.src)

\* The last call of worker w sent a token request and the request failed.
FailedIdle(w) == tcall[w].pc = "idle" /\ tcall[w].asked /\ tcall[w].ret = ""

CacheHit == spotTok # "" /\ now < spotExp

\* Worker w was handed the cached token by its last call.
ServedFromCache(w) ==
    tcall[w].pc = "idle" /\ ~tcall[w].asked /\ tcall[w].ret \in Tokens

\* C36: a token whose expires_in is at most 60 seconds is never reused (no
\* call is handed it from the cache: every later call sends a token request);
\* and a call is handed a cached token only while the time is strictly
\* before fetch time + expires_in - 60 seconds.
C36_ShortLivedTokenNeverReused ==
    /\ (spotTok # "" /\ fetched.vttl <= ExpirySlack) => ~CacheHit
    /\ \A w \in WorkerIds : ServedFromCache(w) => tcall[w].fresh

\* The country each source answers with in the model, by its source tag.
CountryOfTag ==
    [t \in CountryTags |->
        CASE t = "metal_archives_country" -> "SE"
          [] t = "musicbrainz_country" -> "NO"
          [] t = "discogs_country" -> "FI"]

\* C37: in every EnrichedRelease, Sources contains at most one of the three
\* country source tags (registry, music-graph, secondary catalog); one of
\* them is present iff the country is non-empty, and the tag present names
\* the source whose value was kept.
C37_OneCountryTagNamingTheSource ==
    LET tags == en.sources \cap CountryTags IN
    /\ Cardinality(tags) <= 1
    /\ tags # {} <=> en.country # ""
    /\ \A t \in tags : en.country = CountryOfTag[t]

\* A returned release whose country came from the music-graph service after
\* the registry had none: it carries that one country tag.
C37_Witness ==
    /\ en.pc = "returned"
    /\ en.country = "NO"
    /\ en.sources \cap CountryTags = {"musicbrainz_country"}
    /\ "ma_country" \in Attempted(en)

\* C38: pickOfficialWebsite is deterministic and independent of the order
\* of its input: for every URL list and every rearrangement of it the result
\* is the same, whatever the order in which the candidate map is enumerated.
C38_PickIndependentOfOrder ==
    fn.op = "pickInOrder" =>
        /\ fn.permOut = fn.out
        /\ fn.out = pickOfficialWebsite(fn.in)

\* Two entries given in both orders yield two candidates of equal length,
\* enumerated in opposite orders by the two calls; the same one is picked.
C38_Witness ==
    /\ fn.op = "pickInOrder"
    /\ Len(fn.in) = 2
    /\ fn.perm # fn.in
    /\ Len(fn.order) = 2
    /\ Len(fn.order[1]) = Len(fn.order[2])
    /\ fn.permOrder # fn.order
    /\ fn.out # <<>>
    /\ fn.permOut = fn.out

\* C39: when the artist name normalizes to the empty string (a name made
\* only of characters outside [a-z0-9 ]), the token-subset rule accepts no
\* candidate: unless some candidate's normalized name equals the normalized
\* query, none is selected.
C39_NoTokensNoCandidate ==
    (/\ fn.op = "bestCandidate"
     /\ fn.artist # <<>>
     /\ norm(fn.artist) = <<>>
     /\ \A i \in 1..Len(fn.names) : ~NameEqual(i)) => fn.best = 0

====
